---- MODULE Spec2Model ----
(***************************************************************************)
(* State-machine model of the Cubyz <-> Discord relay.                     *)
(*                                                                         *)
(* Part 1: BotConnectionManager (botConnection.ts, src/unnamed/part_005).  *)
(* The manager's private fields are the variables state, connection,       *)
(* reconnectTimer, retryAttempt and requestedStop.  Every CubyzConnection  *)
(* the manager has constructed is an entry of `sessions`; the library is a *)
(* black box whose start() promise settles, and which emits its events, at *)
(* times the manager does not control.  Each action is one run-to-         *)
(* completion step of the single JavaScript thread: a public method call,  *)
(* the reconnect timer's callback, or a callback from a session.           *)
(* emitted, forwarded and thrown record what that one step delivered to    *)
(* the manager's subscribers, to the session, and to its caller.           *)
(***************************************************************************)
EXTENDS Integers, Sequences, FiniteSets, TLC

VARIABLES
    state,            \* "stopped" | "connecting" | "connected"
    connection,       \* id of the current session, Null when this.connection is null
    reconnectTimer,   \* TRUE while a setTimeout handle is stored and pending
    retryAttempt,
    requestedStop,
    retryConfig,      \* [reconnect, maxRetries, retryDelayMs], fixed at construction
    errorListener,    \* TRUE once a consumer has called on("error", ...)
    sessions,         \* sequence of session records, index = session id
    emitted,          \* events delivered to subscribers by the last step, in order
    forwarded,        \* <<[session, text]>> calls of session.sendChat by the last step
    thrown,           \* what escaped the last step: "none" | "not-connected" | "error"
    lastCall,         \* which step ran last
    lastArg,          \* the argument of the last sendChat call
    streak,           \* failed attempts in a row since start(); Broken if interrupted
    stopRun,          \* stop() calls in a row ending with the last step
    stopEmits,        \* disconnected{stopped} events emitted by that run of calls
    prevDelay,        \* delayMs of the last reconnecting event of the current outage
    hasActiveConnection,  \* index.ts: set by its connected/disconnected listeners
    notices,          \* messages index.ts handed to sendMessage in the last step
    pl,               \* Part 2: the players handler, its configuration and last payload
    fan,              \* Part 3: IntegrationManager, the dispatch round in progress
    sd,               \* Part 4: index.ts shutdown
    tracker,          \* Part 5: PlayerTracker
    parsed,           \* Part 6: the event parser, its input and its result
    cleaned,          \* Part 7: cleanUsername, its input and its result
    relay,            \* Part 8: the chat relay from the messaging platform
    outbound,         \* Part 9: discordClient.sendMessage, one call
    startup,          \* Part 10: the startup messages of index.ts
    loaded,           \* Part 11: loadConfig, the document and its outcome
    sink              \* Part 12: DiscordIntegration as a sink of the manager

vars == <<state, connection, reconnectTimer, retryAttempt, requestedStop,
          retryConfig, errorListener, sessions, emitted, forwarded, thrown,
          lastCall, lastArg, streak, stopRun, stopEmits, prevDelay,
          hasActiveConnection, notices, pl, fan, sd, tracker,
          parsed, cleaned, relay, outbound, startup, loaded, sink>>

\* the variables of parts 1 to 5
connVars == <<state, connection, reconnectTimer, retryAttempt, requestedStop,
              retryConfig, errorListener, sessions, emitted, forwarded, thrown,
              lastCall, lastArg, streak, stopRun, stopEmits, prevDelay,
              hasActiveConnection, notices>>
plVars == <<pl>>
fanVars == <<fan>>
sdVars == <<sd>>
trackerVars == <<tracker>>
parsedVars == <<parsed>>
cleanedVars == <<cleaned>>
relayVars == <<relay>>
outboundVars == <<outbound>>
startupVars == <<startup>>
loadedVars == <<loaded>>
sinkVars == <<sink>>
lateVars == <<parsed, cleaned, relay, outbound, startup, loaded, sink>>

----------------------------------------------------------------------------
(* Bounds of the model *)

MaxSessions == 3        \* sessions constructed in one behaviour
MaxRetriesCfg == 2      \* largest configured connection.maxRetries
MaxTextLen == 2         \* longest sendChat argument
MaxStopRun == 2         \* stop() calls made in a row

Null == 0
NoValue == -1           \* an absent optional field / a null maxRetries
Broken == NoValue            \* streak: the run is not N consecutive failures after start()

RetryDelayMs == 30000

\* GenericUpdate payloads of the session: a gamemode change, or another type
Gamemodes == {"survival", "creative"}
GenericUpdates ==
    [type : {"gamemode"}, gamemode : Gamemodes] \cup
    [type : {"other"}, gamemode : {"-"}]

Chars == {" ", "a"}
Whitespace == {" ", "\n", "\r", "\t"}

Texts == UNION {[1..n -> Chars] : n \in 0..MaxTextLen}

----------------------------------------------------------------------------
(* String.prototype.trim *)

RECURSIVE TrimLeft(_)
TrimLeft(s) ==
    IF s # <<>> /\ Head(s) \in Whitespace THEN TrimLeft(Tail(s)) ELSE s

RECURSIVE TrimRight(_)
TrimRight(s) ==
    IF s # <<>> /\ s[Len(s)] \in Whitespace
    THEN TrimRight(SubSeq(s, 1, Len(s) - 1))
    ELSE s

Trim(s) == TrimRight(TrimLeft(s))

----------------------------------------------------------------------------
(* Events of BotConnectionEvents *)

ErrorEvent ==
    [type |-> "error", reason |-> "-", attempts |-> NoValue,
     attempt |-> NoValue, maxRetries |-> NoValue, delayMs |-> NoValue,
     gamemode |-> "-"]

ConnectedEvent ==
    [type |-> "connected", reason |-> "-", attempts |-> NoValue,
     attempt |-> NoValue, maxRetries |-> NoValue, delayMs |-> NoValue,
     gamemode |-> "-"]

DisconnectedEvent(reason, attempts) ==
    [type |-> "disconnected", reason |-> reason, attempts |-> attempts,
     attempt |-> NoValue, maxRetries |-> NoValue, delayMs |-> NoValue,
     gamemode |-> "-"]

ReconnectingEvent(attempt, maxRetries, delayMs) ==
    [type |-> "reconnecting", reason |-> "-", attempts |-> NoValue,
     attempt |-> attempt, maxRetries |-> maxRetries, delayMs |-> delayMs,
     gamemode |-> "-"]

GamemodeEvent(gamemode) ==
    [type |-> "gamemode", reason |-> "-", attempts |-> NoValue,
     attempt |-> NoValue, maxRetries |-> NoValue, delayMs |-> NoValue,
     gamemode |-> gamemode]

----------------------------------------------------------------------------
(* The manager's methods, as functions from the world before to the world  *)
(* after.  A world is the record of everything a method can read or write. *)

World ==
    [state |-> state, connection |-> connection,
     reconnectTimer |-> reconnectTimer, retryAttempt |-> retryAttempt,
     requestedStop |-> requestedStop, sessions |-> sessions,
     emitted |-> <<>>, forwarded |-> <<>>, thrown |-> "none"]

\* new CubyzConnection(options), before start() is called
NewSession ==
    [promise |-> "pending",   \* start(): "pending" | "resolved" | "rejected"
     link |-> "init",         \* "init" | "up" | "down"
     attached |-> FALSE,      \* connected/chat/players/disconnect handlers
     generic |-> FALSE,       \* genericUpdate handler
     closed |-> FALSE]        \* close() was called

emit(w, ev) == [w EXCEPT !.emitted = Append(@, ev)]

\* EventEmitter.emit("error", e) throws e when no listener is registered
emitError(w) ==
    IF errorListener THEN emit(w, ErrorEvent) ELSE [w EXCEPT !.thrown = "error"]

attachListeners(w, c) ==
    [w EXCEPT !.sessions[c].attached = TRUE, !.sessions[c].generic = TRUE]

detachListeners(w, c) ==
    [w EXCEPT !.sessions[c].attached = FALSE]

cleanupConnection(w) ==
    IF w.connection = Null
    THEN w
    ELSE [detachListeners(w, w.connection) EXCEPT !.connection = Null]

clearReconnectTimer(w) == [w EXCEPT !.reconnectTimer = FALSE]

\* mutant: the reconnecting event carries the counter before its increment
scheduleReconnectStaleAttempt(w) ==
    LET w1 == clearReconnectTimer(w)
        w2 == [w1 EXCEPT !.retryAttempt = @ + 1]
        maxRetries == IF retryConfig.maxRetries > 0
                      THEN retryConfig.maxRetries ELSE NoValue
    IN  IF maxRetries # NoValue /\ w2.retryAttempt > maxRetries
        THEN [emit(w2, DisconnectedEvent("retries-exhausted",
                                         w2.retryAttempt - 1))
                EXCEPT !.state = "stopped"]
        ELSE [emit(w2, ReconnectingEvent(w.retryAttempt, maxRetries,
                                         retryConfig.retryDelayMs))
                EXCEPT !.reconnectTimer = TRUE]

\* mutant: retries are exhausted one attempt early (>= for >)
scheduleReconnectEarly(w) ==
    LET w1 == clearReconnectTimer(w)
        w2 == [w1 EXCEPT !.retryAttempt = @ + 1]
        maxRetries == IF retryConfig.maxRetries > 0
                      THEN retryConfig.maxRetries ELSE NoValue
    IN  IF maxRetries # NoValue /\ w2.retryAttempt >= maxRetries
        THEN [emit(w2, DisconnectedEvent("retries-exhausted",
                                         w2.retryAttempt - 1))
                EXCEPT !.state = "stopped"]
        ELSE [emit(w2, ReconnectingEvent(w2.retryAttempt, maxRetries,
                                         retryConfig.retryDelayMs))
                EXCEPT !.reconnectTimer = TRUE]

scheduleReconnect(w) ==
    LET w1 == clearReconnectTimer(w)
        w2 == [w1 EXCEPT !.retryAttempt = @ + 1]
        maxRetries == IF retryConfig.maxRetries > 0
                      THEN retryConfig.maxRetries ELSE NoValue
    IN  IF maxRetries # NoValue /\ w2.retryAttempt > maxRetries
        THEN [emit(w2, DisconnectedEvent("retries-exhausted",
                                         w2.retryAttempt - 1))
                EXCEPT !.state = "stopped"]
        ELSE [emit(w2, ReconnectingEvent(w2.retryAttempt, maxRetries,
                                         retryConfig.retryDelayMs))
                EXCEPT !.reconnectTimer = TRUE]

\* mutant: a failed attempt keeps the session it failed on
handleConnectionFailureKeepsSession(w) ==
    LET w1 == emitError(w)
        w2 == [w1 EXCEPT !.state = "connecting"]
    IN  IF w1.thrown # "none"
        THEN w1
        ELSE IF w2.requestedStop \/ ~retryConfig.reconnect
             THEN emit([w2 EXCEPT !.state = "stopped"],
                       DisconnectedEvent("error", NoValue))
             ELSE scheduleReconnect(w2)

handleConnectionFailure(w) ==
    LET w1 == emitError(w)
        w2 == [cleanupConnection(w1) EXCEPT !.state = "connecting"]
    IN  IF w1.thrown # "none"
        THEN w1
        ELSE IF w2.requestedStop \/ ~retryConfig.reconnect
             THEN emit([w2 EXCEPT !.state = "stopped"],
                       DisconnectedEvent("error", NoValue))
             ELSE scheduleReconnect(w2)

\* up to the await of connection.start(); the promise stays pending
openConnection(w) ==
    LET w1 == cleanupConnection(w)
        id == Len(w1.sessions) + 1
        w2 == [w1 EXCEPT !.sessions = Append(@, NewSession),
                         !.connection = id]
    IN  attachListeners(w2, id)

\* the catch branch runs later, in ConnectFails
tryConnect(w) ==
    IF w.requestedStop THEN w ELSE openConnection(w)

\* mutant: start() without its state guard
startUnguarded(w) ==
    tryConnect([w EXCEPT !.requestedStop = FALSE,
                         !.retryAttempt = 0,
                         !.state = "connecting"])

start(w) ==
    IF w.state # "stopped"
    THEN w
    ELSE tryConnect([w EXCEPT !.requestedStop = FALSE,
                              !.retryAttempt = 0,
                              !.state = "connecting"])

\* connection.close({ notify: true })
close(w, c) ==
    [w EXCEPT !.sessions[c].closed = TRUE, !.sessions[c].link = "down"]

\* mutant: stop() that leaves the reconnect timer armed
stopKeepsTimer(w) ==
    LET w1 == [w EXCEPT !.requestedStop = TRUE]
        w2 == [w1 EXCEPT !.retryAttempt = 0]
        w3 == IF w2.connection # Null
              THEN [close(detachListeners(w2, w2.connection), w2.connection)
                      EXCEPT !.connection = Null]
              ELSE w2
    IN  emit([w3 EXCEPT !.state = "stopped"],
             DisconnectedEvent("stopped", NoValue))

stop(w) ==
    LET w1 == clearReconnectTimer([w EXCEPT !.requestedStop = TRUE])
        w2 == [w1 EXCEPT !.retryAttempt = 0]
        w3 == IF w2.connection # Null
              THEN [close(detachListeners(w2, w2.connection), w2.connection)
                      EXCEPT !.connection = Null]
              ELSE w2
    IN  emit([w3 EXCEPT !.state = "stopped"],
             DisconnectedEvent("stopped", NoValue))

\* mutant: sendChat that looks at the session only, not at the state
sendChatAnyState(w, message) ==
    LET trimmed == Trim(message)
    IN  IF Len(trimmed) = 0
        THEN w
        ELSE IF w.connection = Null
             THEN [w EXCEPT !.thrown = "not-connected"]
             ELSE [w EXCEPT !.forwarded =
                       Append(@, [session |-> w.connection, text |-> trimmed])]

sendChat(w, message) ==
    LET trimmed == Trim(message)
    IN  IF Len(trimmed) = 0
        THEN w
        ELSE IF w.state # "connected" \/ w.connection = Null
             THEN [w EXCEPT !.thrown = "not-connected"]
             ELSE [w EXCEPT !.forwarded =
                       Append(@, [session |-> w.connection, text |-> trimmed])]

\* mutant: connected without the reset of the attempt counter
handleConnectedKeepsAttempt(w) ==
    emit([w EXCEPT !.state = "connected"], ConnectedEvent)

handleConnected(w) ==
    emit([w EXCEPT !.state = "connected", !.retryAttempt = 0], ConnectedEvent)

\* mutant: the reconnect is scheduled before disconnected is emitted
handleDisconnectLate(w) ==
    LET w1 == cleanupConnection(w)
        w2 == [w1 EXCEPT !.state = "connecting"]
    IN  IF w1.requestedStop
        THEN [w1 EXCEPT !.state = "stopped"]
        ELSE IF ~retryConfig.reconnect
             THEN [emit(w2, DisconnectedEvent("server", NoValue))
                     EXCEPT !.state = "stopped"]
             ELSE emit(scheduleReconnect(w2),
                       DisconnectedEvent("server", NoValue))

handleDisconnect(w) ==
    LET w1 == cleanupConnection(w)
        w2 == emit([w1 EXCEPT !.state = "connecting"],
                   DisconnectedEvent("server", NoValue))
    IN  IF w1.requestedStop
        THEN [w1 EXCEPT !.state = "stopped"]
        ELSE IF ~retryConfig.reconnect
             THEN [w2 EXCEPT !.state = "stopped"]
             ELSE scheduleReconnect(w2)

handleGenericUpdate(w, update) ==
    IF update.type = "gamemode"
    THEN emit(w, GamemodeEvent(update.gamemode))
    ELSE w

\* the callback handed to setTimeout in scheduleReconnect
timerCallback(w) ==
    LET w1 == [w EXCEPT !.reconnectTimer = FALSE]
    IN  IF w1.requestedStop THEN w1 ELSE tryConnect(w1)

----------------------------------------------------------------------------
(* Steps *)

----------------------------------------------------------------------------
(* index.ts: the listeners main() registers on the manager.  No startup    *)
(* messages are configured.                                                *)

ConnectedNotice == [kind |-> "connected", attempts |-> NoValue]

\* the message handleDisconnection sends for a disconnected payload, if any
handleDisconnection(app, payload) ==
    IF payload.reason = "retries-exhausted"
    THEN [app EXCEPT !.notices =
             Append(@, [kind |-> "failed-to-reconnect",
                        attempts |-> IF payload.attempts > 0
                                     THEN payload.attempts ELSE NoValue])]
    ELSE IF payload.reason = "server"
    THEN [app EXCEPT !.notices =
             Append(@, [kind |-> "disconnected", attempts |-> NoValue])]
    ELSE IF payload.reason = "error"
    THEN [app EXCEPT !.notices =
             Append(@, [kind |-> "connection-failed", attempts |-> NoValue])]
    ELSE app

onConnected(app) ==
    [app EXCEPT !.hasActiveConnection = TRUE,
                !.notices = Append(@, ConnectedNotice)]

onDisconnected(app, payload) ==
    IF ~app.hasActiveConnection
    THEN app
    ELSE handleDisconnection([app EXCEPT !.hasActiveConnection = FALSE],
                             payload)

\* the listeners run inside emit, one event after the other
RECURSIVE Listeners(_, _)
Listeners(evs, app) ==
    IF evs = <<>>
    THEN app
    ELSE Listeners(Tail(evs),
                   IF Head(evs).type = "connected"
                   THEN onConnected(app)
                   ELSE IF Head(evs).type = "disconnected"
                   THEN onDisconnected(app, Head(evs))
                   ELSE app)

\* the delay announced by the step's reconnecting event; forgotten when the
\* outage ends (the manager is connected or stopped)
LastDelay(w, prev) ==
    IF \E i \in 1..Len(w.emitted) : w.emitted[i].type = "reconnecting"
    THEN LET i == CHOOSE i \in 1..Len(w.emitted) :
                      w.emitted[i].type = "reconnecting"
         IN  w.emitted[i].delayMs
    ELSE IF w.state = "connecting" THEN prev ELSE NoValue

Commit(w) ==
    /\ state' = w.state
    /\ connection' = w.connection
    /\ reconnectTimer' = w.reconnectTimer
    /\ retryAttempt' = w.retryAttempt
    /\ requestedStop' = w.requestedStop
    /\ sessions' = w.sessions
    /\ emitted' = w.emitted
    /\ forwarded' = w.forwarded
    /\ thrown' = w.thrown
    /\ prevDelay' = LastDelay(w, prevDelay)
    /\ LET app == Listeners(w.emitted,
                            [hasActiveConnection |-> hasActiveConnection,
                             notices |-> <<>>])
       IN  /\ hasActiveConnection' = app.hasActiveConnection
           /\ notices' = app.notices
    /\ UNCHANGED <<plVars, fanVars, sdVars, trackerVars, lateVars>>

\* how often ev occurs in the sequence evs
Count(evs, ev) == Cardinality({i \in 1..Len(evs) : evs[i] = ev})

\* bookkeeping of a step that is not a stop() call
Ghost(call, arg) ==
    /\ lastCall' = call
    /\ lastArg' = arg
    /\ stopRun' = 0
    /\ stopEmits' = 0

\* the value of a part's variable in a specification of another part
PlIdle == "idle"
FanIdle == "idle"
SdIdle == "idle"
TrackerIdle == "idle"
ParsedIdle == "idle"
CleanedIdle == "idle"
RelayIdle == "idle"
OutboundIdle == "idle"
StartupIdle == "idle"
LoadedIdle == "idle"
SinkIdle == "idle"

LateIdle ==
    /\ parsed = ParsedIdle
    /\ cleaned = CleanedIdle
    /\ relay = RelayIdle
    /\ outbound = OutboundIdle
    /\ startup = StartupIdle
    /\ loaded = LoadedIdle
    /\ sink = SinkIdle

\* a session the library still has work for
InFlight(s) ==
    /\ ~s.closed
    /\ \/ s.link = "up"
       \/ s.link = "init" /\ s.promise = "pending"

Init ==
    /\ state = "stopped"
    /\ connection = Null
    /\ reconnectTimer = FALSE
    /\ retryAttempt = 0
    /\ requestedStop = FALSE
    /\ retryConfig \in [reconnect : BOOLEAN,
                        maxRetries : 0..MaxRetriesCfg,
                        retryDelayMs : {RetryDelayMs}]
    /\ errorListener = FALSE
    /\ sessions = <<>>
    /\ emitted = <<>>
    /\ forwarded = <<>>
    /\ thrown = "none"
    /\ lastCall = "new"
    /\ lastArg = <<>>
    /\ streak = Broken
    /\ stopRun = 0
    /\ stopEmits = 0
    /\ prevDelay = NoValue
    /\ hasActiveConnection = FALSE
    /\ notices = <<>>
    /\ pl = PlIdle
    /\ fan = FanIdle
    /\ sd = SdIdle
    /\ tracker = TrackerIdle
    /\ LateIdle

\* consumer: bot.on("error", listener)
OnError ==
    /\ ~errorListener
    /\ errorListener' = TRUE
    /\ Commit(World)
    /\ Ghost("on", <<>>)
    /\ UNCHANGED <<retryConfig, streak>>

Start ==
    /\ state = "stopped" => Len(sessions) < MaxSessions
    /\ Commit(start(World))
    /\ Ghost("start", <<>>)
    /\ streak' = IF state = "stopped" THEN 0 ELSE streak
    /\ UNCHANGED <<retryConfig, errorListener>>

Stop ==
    /\ stopRun < MaxStopRun
    /\ Commit(stop(World))
    /\ lastCall' = "stop"
    /\ lastArg' = <<>>
    /\ stopRun' = stopRun + 1
    /\ stopEmits' = stopEmits + Count(stop(World).emitted,
                                      DisconnectedEvent("stopped", NoValue))
    /\ streak' = Broken
    /\ UNCHANGED <<retryConfig, errorListener>>

SendChat ==
    /\ \E message \in Texts :
            /\ Commit(sendChat(World, message))
            /\ Ghost("sendChat", message)
    /\ UNCHANGED <<retryConfig, errorListener, streak>>

\* the reconnect timer expires
TimerFire ==
    /\ reconnectTimer
    /\ Len(sessions) < MaxSessions
    /\ Commit(timerCallback(World))
    /\ Ghost("timer", <<>>)
    /\ UNCHANGED <<retryConfig, errorListener, streak>>

\* session c completes its handshake: start() resolves and "connected" is
\* emitted to whatever handlers are registered on c
ConnectSucceeds ==
    \E c \in 1..Len(sessions) :
        /\ sessions[c].promise = "pending"
        /\ sessions[c].link = "init"
        /\ ~sessions[c].closed
        /\ LET w == [World EXCEPT !.sessions[c].promise = "resolved",
                                  !.sessions[c].link = "up"]
           IN  Commit(IF sessions[c].attached THEN handleConnected(w) ELSE w)
        /\ Ghost("connected", <<>>)
        /\ streak' = IF sessions[c].attached THEN Broken ELSE streak
        /\ UNCHANGED <<retryConfig, errorListener>>

\* start() of session c rejects: the catch branch of the tryConnect that
\* opened c runs, whatever the manager has done since
ConnectFails ==
    \E c \in 1..Len(sessions) :
        /\ sessions[c].promise = "pending"
        /\ sessions[c].link # "up"
        /\ LET w == [World EXCEPT !.sessions[c].promise = "rejected",
                                  !.sessions[c].link = "down"]
           IN  Commit(handleConnectionFailure(w))
        /\ Ghost("failed", <<>>)
        /\ streak' = IF c = connection /\ streak # Broken
                     THEN streak + 1 ELSE Broken
        /\ UNCHANGED <<retryConfig, errorListener>>

\* the server drops established session c: "disconnect" is emitted to
\* whatever handlers are registered on c
ServerDisconnect ==
    \E c \in 1..Len(sessions) :
        /\ sessions[c].link = "up"
        /\ LET w == [World EXCEPT !.sessions[c].link = "down"]
           IN  Commit(IF sessions[c].attached THEN handleDisconnect(w) ELSE w)
        /\ Ghost("disconnect", <<>>)
        /\ streak' = IF sessions[c].attached THEN Broken ELSE streak
        /\ UNCHANGED <<retryConfig, errorListener>>

\* session c, established, reports a generic update: "genericUpdate" is
\* emitted to the handler if one is registered on c
GenericUpdate ==
    \E c \in 1..Len(sessions), update \in GenericUpdates :
        /\ sessions[c].link = "up"
        /\ Commit(IF sessions[c].generic
                  THEN handleGenericUpdate(World, update)
                  ELSE World)
        /\ Ghost("genericUpdate", <<>>)
        /\ UNCHANGED <<retryConfig, errorListener, streak>>

Next ==
    \/ OnError
    \/ Start
    \/ Stop
    \/ SendChat
    \/ TimerFire
    \/ ConnectSucceeds
    \/ ConnectFails
    \/ ServerDisconnect
    \/ GenericUpdate

Spec == Init /\ [][Next]_vars

----------------------------------------------------------------------------
TypeOK ==
    /\ state \in {"stopped", "connecting", "connected"}
    /\ connection \in 0..Len(sessions)
    /\ reconnectTimer \in BOOLEAN
    /\ retryAttempt \in 0..MaxSessions
    /\ requestedStop \in BOOLEAN
    /\ Len(sessions) <= MaxSessions

----------------------------------------------------------------------------
(* Shorthands of the properties below *)

HasDisconnected(evs) == \E i \in 1..Len(evs) : evs[i].type = "disconnected"

EffectiveMax == IF retryConfig.maxRetries > 0 THEN retryConfig.maxRetries ELSE NoValue

InFlightSessions == {c \in 1..Len(sessions) : InFlight(sessions[c])}

\* t is s without its leading and trailing whitespace
IsTrimOf(t, s) ==
    /\ t # <<>>
    /\ t[1] \notin Whitespace
    /\ t[Len(t)] \notin Whitespace
    /\ \E i \in 0..Len(s) :
          /\ i + Len(t) <= Len(s)
          /\ \A k \in 1..Len(s) :
                IF k > i /\ k <= i + Len(t)
                THEN s[k] = t[k - i]
                ELSE s[k] \in Whitespace

----------------------------------------------------------------------------
(* C1: with reconnect enabled and maxRetries = N > 0, the failures 1..N    *)
(* in a row after start() emit no disconnected event and leave the manager *)
(* Connecting; the failure N+1 emits error and then the one                *)
(* disconnected{retries-exhausted, attempts: N} and leaves the manager     *)
(* Stopped with no timer armed; and from a Stopped manager nothing but     *)
(* start() begins a connection attempt or arms the timer.                  *)
C1_RetriesExhausted ==
    [][ /\ ( /\ lastCall' = "failed"
             /\ retryConfig.reconnect
             /\ retryConfig.maxRetries > 0
             /\ streak' # Broken )
           => IF streak' = retryConfig.maxRetries + 1
              THEN /\ emitted' = <<ErrorEvent,
                                   DisconnectedEvent("retries-exhausted",
                                                     retryConfig.maxRetries)>>
                   /\ state' = "stopped"
                   /\ ~reconnectTimer'
              ELSE /\ streak' <= retryConfig.maxRetries
                   /\ ~HasDisconnected(emitted')
                   /\ state' = "connecting"
        /\ (state = "stopped" /\ lastCall' # "start")
           => /\ state' = "stopped"
              /\ ~reconnectTimer'
              /\ Len(sessions') = Len(sessions)
      ]_vars

\* three failures in a row after start() with maxRetries = 2
C1_Witness ==
    /\ retryConfig.reconnect
    /\ retryConfig.maxRetries = 2
    /\ lastCall = "failed"
    /\ streak = 3
    /\ state = "stopped"

(* C2: a run of stop() calls emits at most one disconnected{stopped}, and  *)
(* a stop() that directly follows a stop() emits nothing.                  *)
C2_StopIdempotent ==
    /\ stopEmits <= 1
    /\ stopRun >= 2 => (emitted = <<>> /\ state = "stopped")

(* C3: stop() sets the stop request and leaves no timer armed, and while   *)
(* the request stands (until start()) no step arms the timer or constructs *)
(* a session.                                                              *)
C3_StopCancels ==
    [][ /\ lastCall' = "stop" => (requestedStop' /\ ~reconnectTimer')
        /\ (requestedStop /\ lastCall' # "start")
           => /\ requestedStop'
              /\ ~reconnectTimer'
              /\ Len(sessions') = Len(sessions)
              /\ connection' = Null
      ]_vars

\* a connect failure delivered after stop()
C3_Witness ==
    /\ lastCall = "failed"
    /\ requestedStop
    /\ state = "stopped"
    /\ emitted # <<>>

(* C4: start() in state Connecting or Connected changes nothing and emits  *)
(* nothing; start() in state Stopped clears the retry counter and the stop *)
(* request, moves to Connecting and opens exactly one new session, which   *)
(* becomes the current one.                                                *)
C4_StartGuard ==
    [][ lastCall' = "start"
        => IF state # "stopped"
           THEN /\ UNCHANGED <<state, connection, reconnectTimer, retryAttempt,
                               requestedStop, sessions>>
                /\ emitted' = <<>>
                /\ thrown' = "none"
           ELSE /\ state' = "connecting"
                /\ retryAttempt' = 0
                /\ ~requestedStop'
                /\ Len(sessions') = Len(sessions) + 1
                /\ connection' = Len(sessions')
                /\ sessions'[connection'].promise = "pending"
                /\ \A c \in 1..Len(sessions) : sessions'[c] = sessions[c]
      ]_vars

\* start() called while connecting, with a reconnect timer armed
C4_Witness ==
    /\ lastCall = "start"
    /\ state = "connecting"
    /\ reconnectTimer
    /\ retryAttempt > 0

(* C5: at most one session is in flight (connect pending or established,   *)
(* not closed), and the outcome of a session that is not the current one   *)
(* leaves the current session attached and current.                        *)
C5_OneInFlight ==
    /\ [](Cardinality(InFlightSessions) <= 1)
    /\ [][ \A c \in 1..Len(sessions) :
              ( /\ lastCall' = "failed"
                /\ sessions[c].promise = "pending"
                /\ sessions'[c].promise = "rejected"
                /\ c # connection )
              => UNCHANGED connection
         ]_vars

(* C6: sendChat with a text that is not blank fails with "not connected"   *)
(* and forwards nothing unless the state is Connected; what is forwarded   *)
(* is forwarded in state Connected, once, to the current session, and is   *)
(* the trimmed text; sendChat never changes the manager.                   *)
C6_SendChat ==
    [][ lastCall' = "sendChat"
        => /\ UNCHANGED <<state, connection, reconnectTimer, retryAttempt,
                          requestedStop, sessions>>
           /\ emitted' = <<>>
           /\ ( (\E k \in 1..Len(lastArg') : lastArg'[k] \notin Whitespace)
                /\ state # "connected" )
              => (thrown' = "not-connected" /\ forwarded' = <<>>)
           /\ forwarded' # <<>>
              => /\ state = "connected"
                 /\ Len(forwarded') = 1
                 /\ forwarded'[1].session = connection
                 /\ IsTrimOf(forwarded'[1].text, lastArg')
                 /\ thrown' = "none"
      ]_vars

\* a text with content refused while a connection attempt is pending
C6_Witness ==
    /\ lastCall = "sendChat"
    /\ thrown = "not-connected"
    /\ state = "connecting"
    /\ Len(lastArg) > Len(Trim(lastArg))

(* C7: with reconnect enabled and maxRetries = 0 no step emits             *)
(* disconnected{retries-exhausted}, only stop() moves the manager to       *)
(* Stopped, and every failed attempt not preceded by stop() emits a        *)
(* reconnecting event with a null maximum and arms the timer.              *)
C7_Unbounded ==
    [][ (retryConfig.reconnect /\ retryConfig.maxRetries = 0)
        => /\ \A i \in 1..Len(emitted') :
                 emitted'[i].reason # "retries-exhausted"
           /\ (state # "stopped" /\ state' = "stopped") => lastCall' = "stop"
           /\ (lastCall' = "failed" /\ ~requestedStop)
              => /\ emitted' = <<ErrorEvent,
                                 ReconnectingEvent(retryAttempt + 1, NoValue,
                                                   retryConfig.retryDelayMs)>>
                 /\ reconnectTimer'
                 /\ state' = "connecting"
      ]_vars

(* C8: every failed attempt emits error first; if stop was requested or    *)
(* reconnect is disabled the manager is then Stopped, has emitted          *)
(* disconnected{error} and has no timer armed; otherwise it is Connecting  *)
(* with a reconnect scheduled and no disconnected event, or has exhausted  *)
(* its retries.                                                            *)
C8_FailureHandling ==
    [][ lastCall' = "failed"
        => /\ emitted' # <<>>
           /\ emitted'[1] = ErrorEvent
           /\ IF requestedStop \/ ~retryConfig.reconnect
              THEN /\ state' = "stopped"
                   /\ emitted' = <<ErrorEvent, DisconnectedEvent("error", NoValue)>>
                   /\ ~reconnectTimer'
              ELSE \/ /\ state' = "connecting"
                      /\ reconnectTimer'
                      /\ ~HasDisconnected(emitted')
                      /\ Len(emitted') = 2
                      /\ emitted'[2].type = "reconnecting"
                   \/ /\ EffectiveMax # NoValue
                      /\ retryAttempt' > EffectiveMax
                      /\ state' = "stopped"
                      /\ ~reconnectTimer'
                      /\ emitted' = <<ErrorEvent,
                                      DisconnectedEvent("retries-exhausted",
                                                        retryAttempt' - 1)>>
      ]_vars

C10_NeverThrows ==
    lastCall \in {"start", "stop", "timer", "failed", "connected", "disconnect"}
        => thrown = "none"

(* C11: within one outage the delay of a reconnecting event is larger than *)
(* the delay of the reconnecting event before it.                          *)
C11_BackoffGrows ==
    [][ \A i \in 1..Len(emitted') :
           (emitted'[i].type = "reconnecting" /\ prevDelay # NoValue)
           => emitted'[i].delayMs > prevDelay
      ]_vars

(* C12: a session that is not the current one carries no handler of the    *)
(* manager, and a generic update arriving while the manager holds no       *)
(* session makes it emit nothing.                                          *)
C12_ListenersSymmetric ==
    /\ [](\A c \in 1..Len(sessions) :
             c # connection => (~sessions[c].attached /\ ~sessions[c].generic))
    /\ [][ (lastCall' = "genericUpdate" /\ connection = Null)
           => emitted' = <<>> ]_vars

(* C18: a step in which the manager emits disconnected{retries-exhausted,  *)
(* attempts: N} hands exactly one "Failed to reconnect after N attempts"   *)
(* notice to the messaging channel.                                        *)
C18_OneFailureNotice ==
    [][ \A i \in 1..Len(emitted') :
           emitted'[i].reason = "retries-exhausted"
           => Count(notices', [kind |-> "failed-to-reconnect",
                               attempts |-> emitted'[i].attempts]) = 1
      ]_vars

----------------------------------------------------------------------------
(* Part 2: player lists (messageFormatter.cleanUsername and
   BotConnectionManager.handlePlayers).  Names are sequences of characters. *)

MaxPlayers == 2         \* longest player list a session reports

Digits == {"0", "1", "2", "3", "4", "5", "6", "7", "8", "9"}

\* the letters of the model's strings; the last three pairs are the Cyrillic
\* letters es, ve and ie, each written as its code point
UpperCase == <<"A", "B", "C", "D", "E", "F", "G", "H", "I", "J", "K", "L", "M",
               "N", "O", "P", "Q", "R", "S", "T", "U", "V", "W", "X", "Y", "Z",
               "<U+0421>", "<U+0412>", "<U+0415>">>
LowerCase == <<"a", "b", "c", "d", "e", "f", "g", "h", "i", "j", "k", "l", "m",
               "n", "o", "p", "q", "r", "s", "t", "u", "v", "w", "x", "y", "z",
               "<U+0441>", "<U+0432>", "<U+0435>">>

Letters == {UpperCase[i] : i \in DOMAIN UpperCase} \cup
           {LowerCase[i] : i \in DOMAIN LowerCase}

HexDigits == Digits \cup {"a", "b", "c", "d", "e", "f", "A", "B", "C", "D", "E", "F"}

Markdown == {"*", "~", "_", "[", "]"}

\* String.prototype.toLowerCase on one character
LowerOf(c) ==
    IF \E i \in DOMAIN UpperCase : UpperCase[i] = c
    THEN LowerCase[CHOOSE i \in DOMAIN UpperCase : UpperCase[i] = c]
    ELSE c

toNormalized(value) == [i \in 1..Len(value) |-> LowerOf(value[i])]

\* s starts with `marker` followed by six hexadecimal digits
ColorAt(s, marker) ==
    /\ Len(s) >= Len(marker) + 6
    /\ SubSeq(s, 1, Len(marker)) = marker
    /\ \A i \in 1..6 : s[Len(marker) + i] \in HexDigits

\* value.replace(/<marker>[0-9A-Fa-f]{6}/g, "")
RECURSIVE StripColor(_, _)
StripColor(s, marker) ==
    IF s = <<>> THEN <<>>
    ELSE IF ColorAt(s, marker)
         THEN StripColor(SubSeq(s, Len(marker) + 7, Len(s)), marker)
         ELSE <<Head(s)>> \o StripColor(Tail(s), marker)

KeepChar(c) == c \in Letters \cup Digits \cup {"_", "-", " "}

\* cleanUsername whose last filter keeps the letters A-Z and a-z only
cleanUsernameLatin(raw) ==
    LET withoutColors == StripColor(StripColor(raw, <<"§", "#">>), <<"#">>)
        withoutMarkdown == SelectSeq(withoutColors, LAMBDA c : c \notin Markdown)
        stripped == SelectSeq(withoutMarkdown,
                              LAMBDA c : KeepChar(c) /\ Len(c) = 1)
    IN  Trim(stripped)

cleanUsername(raw) ==
    LET withoutColors == StripColor(StripColor(raw, <<"§", "#">>), <<"#">>)
        withoutMarkdown == SelectSeq(withoutColors, LAMBDA c : c \notin Markdown)
        stripped == SelectSeq(withoutMarkdown, KeepChar)
    IN  Trim(stripped)

\* the names a session reports and a configuration holds
RawNames ==
    { <<"A", "b">>,                                   \* Ab
      <<"*", "a", "B", "*">>,                         \* *aB*
      <<"Z", " ">>,                                   \* Z followed by a space
      <<"#", "A", "0", "B", "1", "a", "0", "z", "b">>, \* #A0B1a0zb
      <<"!">> }                                       \* cleans to the empty name

BotNames == { <<"A", "b">>, <<"§", "#", "0", "0", "0", "0", "0", "0", "z", "B">> }

ExcludedLists == { <<>>, << <<"Z">> >>, << <<"a", "b">>, <<"z", "b">> >> }

PlayerLists == UNION {[1..n -> RawNames] : n \in 0..MaxPlayers}

\* normalizedPlayers.findIndex((name) => toNormalized(name) === botName),
\* 1-based; NoValue when nothing matches
findIndex(names, botName) ==
    IF \E i \in 1..Len(names) : toNormalized(names[i]) = botName
    THEN CHOOSE i \in 1..Len(names) :
            /\ toNormalized(names[i]) = botName
            /\ \A j \in 1..(i - 1) : toNormalized(names[j]) # botName
    ELSE NoValue

\* Array.prototype.splice(index, 1)
Splice(seq, index) == SubSeq(seq, 1, index - 1) \o SubSeq(seq, index + 1, Len(seq))

\* constructor: botNormalizedName, excludedNormalizedNames
botNormalizedName(botName) == toNormalized(cleanUsername(botName))

excludedNormalizedNames(excludedUsernames) ==
    {toNormalized(cleanUsername(excludedUsernames[i])) : i \in 1..Len(excludedUsernames)}

NormalizedPlayers(players) ==
    SelectSeq([i \in 1..Len(players) |-> cleanUsername(players[i])],
              LAMBDA name : name # <<>>)

handlePlayersCaseSensitive(cfg, players) ==
    LET normalizedPlayers == NormalizedPlayers(players)
        botIndex == findIndex(normalizedPlayers, botNormalizedName(cfg.botName))
        withoutBot == IF cfg.excludeBotFromCount /\ botIndex # NoValue
                      THEN Splice(normalizedPlayers, botIndex)
                      ELSE normalizedPlayers
    IN  SelectSeq(withoutBot,
            LAMBDA name : name \notin excludedNormalizedNames(cfg.excludedUsernames))

\* the payload of the players event emitted for one list of the session
handlePlayers(cfg, players) ==
    LET normalizedPlayers == NormalizedPlayers(players)
        botIndex == findIndex(normalizedPlayers, botNormalizedName(cfg.botName))
        withoutBot == IF cfg.excludeBotFromCount /\ botIndex # NoValue
                      THEN Splice(normalizedPlayers, botIndex)
                      ELSE normalizedPlayers
    IN  SelectSeq(withoutBot,
            LAMBDA name : toNormalized(name) \notin excludedNormalizedNames(cfg.excludedUsernames))

\* the connection manager as constructed, for the specifications of other parts
ConnIdle ==
    /\ state = "stopped"
    /\ connection = Null
    /\ reconnectTimer = FALSE
    /\ retryAttempt = 0
    /\ requestedStop = FALSE
    /\ retryConfig = [reconnect |-> TRUE, maxRetries |-> 0, retryDelayMs |-> RetryDelayMs]
    /\ errorListener = FALSE
    /\ sessions = <<>>
    /\ emitted = <<>>
    /\ forwarded = <<>>
    /\ thrown = "none"
    /\ lastCall = "new"
    /\ lastArg = <<>>
    /\ streak = Broken
    /\ stopRun = 0
    /\ stopEmits = 0
    /\ prevDelay = NoValue
    /\ hasActiveConnection = FALSE
    /\ notices = <<>>

InitPlayers ==
    /\ ConnIdle
    /\ pl \in [botName : BotNames,
               excludeBotFromCount : BOOLEAN,
               excludedUsernames : ExcludedLists,
               players : {<<>>},
               payload : {<<>>},
               calls : {0}]
    /\ fan = FanIdle
    /\ sd = SdIdle
    /\ tracker = TrackerIdle
    /\ LateIdle

\* the session emits "players" with a list; the manager republishes it
Players ==
    /\ \E players \in PlayerLists :
          pl' = [pl EXCEPT !.players = players,
                           !.payload = handlePlayers(pl, players),
                           !.calls = 1]
    /\ UNCHANGED <<connVars, fanVars, sdVars, trackerVars, lateVars>>

NextPlayers == Players

SpecPlayers == InitPlayers /\ [][NextPlayers]_vars

\* name is one of the spellings of the bot's name
IsBot(name) == toNormalized(name) = botNormalizedName(pl.botName)

IsExcluded(name) == toNormalized(name) \in excludedNormalizedNames(pl.excludedUsernames)

\* C13: with excludeBotFromCount, no name of an emitted players payload is the
\* bot's normalized name in any letter case
C13_BotExcluded ==
    (pl.calls > 0 /\ pl.excludeBotFromCount)
    => \A i \in 1..Len(pl.payload) : ~IsBot(pl.payload[i])

\* C14 as stated: an emitted players payload holds no excluded name and holds
\* every other non-blank normalized name of the session's list, in order
C14_AllOthersPresent ==
    pl.calls > 0 =>
        pl.payload = SelectSeq(NormalizedPlayers(pl.players),
                               LAMBDA name : ~IsExcluded(name))

\* C14: an emitted players payload holds no excluded name, and holds every
\* other non-blank normalized name of the session's list in the session's
\* order, whatever was emitted before; with excludeBotFromCount the spellings
\* of the bot's name are set aside
C14_ExcludedFiltered ==
    pl.calls > 0 =>
        /\ \A i \in 1..Len(pl.payload) : ~IsExcluded(pl.payload[i])
        /\ IF pl.excludeBotFromCount
           THEN SelectSeq(pl.payload, LAMBDA name : ~IsBot(name))
                = SelectSeq(NormalizedPlayers(pl.players),
                            LAMBDA name : ~IsExcluded(name) /\ ~IsBot(name))
           ELSE pl.payload
                = SelectSeq(NormalizedPlayers(pl.players),
                            LAMBDA name : ~IsExcluded(name))

\* a list with an excluded spelling, dropped, and another name, kept
C14_Witness ==
    /\ pl.calls > 0
    /\ pl.payload # <<>>
    /\ \E i \in 1..Len(pl.players) :
          cleanUsername(pl.players[i]) # <<>> /\ IsExcluded(cleanUsername(pl.players[i]))
    /\ \E i \in 1..Len(pl.players) : cleanUsername(pl.players[i]) # pl.players[i]

----------------------------------------------------------------------------
(* Part 3: IntegrationManager (integrations/index.ts).  A dispatch operation
   maps an async callback over the integrations and awaits
   Promise.allSettled of the callbacks. *)

MaxSinks == 2           \* integrations created from the configuration
MaxRounds == 1          \* dispatch rounds started in one behaviour

Ops == {"startAll", "stopAll", "updatePlayers", "updateStatus",
        "updateGamemode", "relayChatMessage", "sendMessage"}

\* one dispatch operation: the synchronous part of
\* integrations.map(async (integration) => { try { await integration.op() }
\* catch (error) { log(...) } }); throws are the sinks whose method throws
\* before returning a promise
dispatchSequential(n, op, throws) ==
    LET first == IF throws = {} THEN n
                 ELSE CHOOSE i \in throws : \A j \in throws : i <= j
    IN  [op |-> op,
         invoked |-> [i \in 1..n |-> IF i <= first THEN 1 ELSE 0],
         status |-> [i \in 1..n |-> IF i \in throws THEN "threw" ELSE
                                    IF i <= first THEN "pending" ELSE "none"],
         logged |-> [i \in 1..n |-> 0],
         done |-> throws # {},
         outcome |-> IF throws # {} THEN "rejected" ELSE "pending"]

dispatch(n, op, throws) ==
    [op |-> op,
     invoked |-> [i \in 1..n |-> 1],
     status |-> [i \in 1..n |-> IF i \in throws THEN "threw" ELSE "pending"],
     logged |-> [i \in 1..n |-> IF i \in throws THEN 1 ELSE 0],
     done |-> FALSE,
     outcome |-> "pending"]

\* the sink's promise settles: the await in the callback returns or throws
\* into the catch block, which logs
settle(round, i, result) ==
    [round EXCEPT !.status[i] = result,
                  !.logged[i] = IF result = "rejected" THEN 1 ELSE 0]

anySettled(round) ==
    \/ DOMAIN round.status = {}
    \/ \E i \in DOMAIN round.status : round.status[i] # "pending"

\* Promise.allSettled over the callbacks of the round
allSettled(round) ==
    \A i \in DOMAIN round.status : round.status[i] # "pending"

InitFanout ==
    /\ ConnIdle
    /\ pl = PlIdle
    /\ \E n \in 0..MaxSinks :
          fan \in [n : {n}, hung : SUBSET (1..n), rounds : {<<>>}, returned : {0}]
    /\ sd = SdIdle
    /\ tracker = TrackerIdle
    /\ LateIdle

FanFrame == UNCHANGED <<connVars, plVars, sdVars, trackerVars, lateVars>>

\* a caller invokes one of the seven operations; sendMessage with a blank
\* message returns before any sink is called
Dispatch ==
    /\ Len(fan.rounds) < MaxRounds
    /\ \E op \in Ops, message \in Texts, throws \in SUBSET (1..fan.n) :
          IF op = "sendMessage" /\ Len(Trim(message)) = 0
          THEN fan' = [fan EXCEPT !.returned = 1]
          ELSE fan' = [fan EXCEPT !.rounds = Append(@, dispatch(fan.n, op, throws))]
    /\ FanFrame

\* the promise a sink returned settles (never, for a hung sink)
SettleCall(r, i) ==
    /\ r \in 1..Len(fan.rounds)
    /\ i \in 1..fan.n
    /\ i \notin fan.hung
    /\ ~fan.rounds[r].done
    /\ fan.rounds[r].status[i] = "pending"
    /\ \E result \in {"fulfilled", "rejected"} :
          fan' = [fan EXCEPT !.rounds[r] = settle(@, i, result)]
    /\ FanFrame

Settle == \E r \in 1..MaxRounds, i \in 1..MaxSinks : SettleCall(r, i)

\* the await of Promise.allSettled returns and the operation's promise resolves
CompleteRound(r) ==
    /\ r \in 1..Len(fan.rounds)
    /\ ~fan.rounds[r].done
    /\ allSettled(fan.rounds[r])
    /\ fan' = [fan EXCEPT !.rounds[r].done = TRUE, !.rounds[r].outcome = "resolved"]
    /\ FanFrame

Complete == \E r \in 1..MaxRounds : CompleteRound(r)

NextFanout ==
    \/ Dispatch
    \/ Settle
    \/ Complete

SpecFanout == InitFanout /\ [][NextFanout]_vars

\* the event loop runs every continuation that is ready; a promise that can
\* settle does settle
SpecFanoutFair ==
    /\ SpecFanout
    /\ \A r \in 1..MaxRounds : WF_vars(CompleteRound(r))
    /\ \A r \in 1..MaxRounds, i \in 1..MaxSinks : WF_vars(SettleCall(r, i))

Failed(round) == {i \in DOMAIN round.status : round.status[i] \in {"threw", "rejected"}}

\* C15: in every round, whichever sinks throw or reject, each sink's method
\* is invoked exactly once, each failure is logged, and the operation's
\* promise is never rejected
C15_FanoutIsolation ==
    \A r \in 1..Len(fan.rounds) :
        /\ \A i \in 1..fan.n : fan.rounds[r].invoked[i] = 1
        /\ \A i \in Failed(fan.rounds[r]) : fan.rounds[r].logged[i] = 1
        /\ fan.rounds[r].outcome # "rejected"
        /\ fan.rounds[r].done => fan.rounds[r].outcome = "resolved"

\* a resolved round in which the first sink threw and another sink was served
C15_Witness ==
    \E r \in 1..Len(fan.rounds) :
        /\ fan.n >= 2
        /\ fan.rounds[r].done
        /\ fan.rounds[r].status[1] = "threw"
        /\ fan.rounds[r].status[2] \in {"fulfilled", "rejected"}

\* C16: a round is complete only when every sink call of the round has
\* settled, with success or with failure
C16_AwaitsAll ==
    \A r \in 1..Len(fan.rounds) :
        fan.rounds[r].done =>
            \A i \in 1..fan.n :
                fan.rounds[r].status[i] \in {"fulfilled", "rejected", "threw"}

\* a complete round whose calls settled one with success and one with failure
C16_Witness ==
    \E r \in 1..Len(fan.rounds) :
        /\ fan.rounds[r].done
        /\ \E i, j \in 1..fan.n :
              /\ fan.rounds[r].status[i] = "fulfilled"
              /\ fan.rounds[r].status[j] = "rejected"

\* C17: a round is not held up forever, also when a sink's call never
\* settles: every round that starts completes
C17_RoundCompletes ==
    \A r \in 1..MaxRounds :
        (Len(fan.rounds) >= r) ~> (Len(fan.rounds) >= r /\ fan.rounds[r].done)

----------------------------------------------------------------------------
(* Part 4: startup and shutdown of the process (index.ts main, shutdown,
   setupQuitHandler; discordClient.cleanup).  sd.log lists the teardown
   calls in the order they are made, sd.source is what made the last
   shutdown() call. *)

MaxShutdownCalls == 3   \* shutdown() calls made by keypresses and signals

\* cleanup() is called: without a client it returns, otherwise it destroys it
callCleanup(s) ==
    [s EXCEPT !.log = IF s.client THEN @ \o <<"cleanup", "destroy">>
                      ELSE Append(@, "cleanup"),
              !.pc = "cleaning"]

\* shutdown() up to its first await
shutdownBody(s) ==
    LET quiet == [s EXCEPT !.isShuttingDown = TRUE,
                           !.keypressHandler = FALSE,
                           !.rawModeEnabled = IF @ /\ s.isTTY THEN FALSE ELSE @,
                           !.stdin = "paused",
                           !.hadBot = s.bot]
    IN  IF quiet.bot
        THEN [quiet EXCEPT !.log = Append(@, "bot.stop"), !.pc = "stopping"]
        ELSE callCleanup(quiet)

shutdownUnguarded(s) == shutdownBody(s)

shutdown(s) ==
    IF s.isShuttingDown THEN s ELSE shutdownBody(s)

\* the await of bot.stop() returns or throws into the catch block
afterStop(s, ok) ==
    callCleanup([s EXCEPT !.bot = IF ok THEN FALSE ELSE @,
                          !.errors = IF ok THEN @ ELSE @ + 1])

\* the await of cleanup() returns or throws into the catch block
afterCleanup(s, ok) ==
    [s EXCEPT !.client = IF ok THEN FALSE ELSE @,
              !.errors = IF ok THEN @ ELSE @ + 1,
              !.pc = "done"]

InitShutdown ==
    /\ ConnIdle
    /\ pl = PlIdle
    /\ fan = FanIdle
    /\ sd \in [phase : {"loading"}, isTTY : BOOLEAN, isShuttingDown : {FALSE},
               keypressHandler : {FALSE}, sigintHandler : {FALSE},
               rawModeEnabled : {FALSE}, stdin : {"initial"},
               bot : {FALSE}, client : {FALSE}, hadBot : {FALSE},
               pc : {"idle"}, log : {<<>>}, errors : {0}, calls : {0},
               source : {"none"}]
    /\ tracker = TrackerIdle
    /\ LateIdle

SdFrame == UNCHANGED <<connVars, plVars, fanVars, trackerVars, lateVars>>

\* main() advances: the client is initialised, the manager is constructed,
\* setupQuitHandler() runs, bot.start() returns
MainStep ==
    /\ \/ /\ sd.phase = "loading"
          /\ sd' = [sd EXCEPT !.phase = "client", !.client = TRUE]
       \/ /\ sd.phase = "client"
          /\ sd' = [sd EXCEPT !.phase = "bot", !.bot = TRUE]
       \/ /\ sd.phase = "bot"
          /\ sd' = [sd EXCEPT !.phase = "waiting",
                              !.rawModeEnabled = sd.isTTY,
                              !.stdin = "resumed",
                              !.keypressHandler = TRUE,
                              !.sigintHandler = TRUE]
       \/ /\ sd.phase = "waiting"
          /\ sd' = [sd EXCEPT !.phase = "started"]
    /\ SdFrame

\* main() catches an error and awaits shutdown(); a failed
\* initializeDiscordClient may have created the client already
MainFails ==
    /\ sd.phase \in {"loading", "client", "bot", "waiting"}
    /\ \E created \in BOOLEAN :
          /\ created => sd.phase = "loading"
          /\ sd' = shutdown([sd EXCEPT !.phase = "failed",
                                       !.client = @ \/ created,
                                       !.source = "error"])
    /\ SdFrame

\* keypress q
KeyQ ==
    /\ sd.keypressHandler
    /\ sd.calls < MaxShutdownCalls
    /\ sd' = shutdown([sd EXCEPT !.calls = @ + 1, !.source = "q"])
    /\ SdFrame

\* keypress ctrl-c: process.emit("SIGINT"), which runs the SIGINT listener
KeyCtrlC ==
    /\ sd.keypressHandler
    /\ sd.calls < MaxShutdownCalls
    /\ sd' = IF sd.sigintHandler
             THEN shutdown([sd EXCEPT !.calls = @ + 1, !.source = "ctrl-c"])
             ELSE sd
    /\ SdFrame

\* the process receives SIGINT
Sigint ==
    /\ sd.sigintHandler
    /\ sd.calls < MaxShutdownCalls
    /\ sd' = shutdown([sd EXCEPT !.calls = @ + 1, !.source = "SIGINT"])
    /\ SdFrame

StopSettles ==
    /\ sd.pc = "stopping"
    /\ \E ok \in BOOLEAN : sd' = afterStop(sd, ok)
    /\ SdFrame

CleanupSettles ==
    /\ sd.pc = "cleaning"
    /\ \E ok \in BOOLEAN :
          /\ ~sd.client => ok
          /\ sd' = afterCleanup(sd, ok)
    /\ SdFrame

NextShutdown ==
    \/ MainStep
    \/ MainFails
    \/ KeyQ
    \/ KeyCtrlC
    \/ Sigint
    \/ StopSettles
    \/ CleanupSettles

SpecShutdown == InitShutdown /\ [][NextShutdown]_vars

\* position of the first occurrence of x in seq
IndexOf(seq, x) == CHOOSE i \in 1..Len(seq) : seq[i] = x /\ \A j \in 1..(i - 1) : seq[j] # x

\* C19: the manager is stopped at most once, the client is torn down at most
\* once and only after bot.stop() has settled, a failure of either does not
\* stop the other or the shutdown, and a shutdown() call made after the first
\* one tears nothing down
C19_ShutdownOnce ==
    /\ [](/\ Count(sd.log, "bot.stop") <= 1
          /\ Count(sd.log, "cleanup") <= 1
          /\ Count(sd.log, "destroy") <= 1
          /\ Count(sd.log, "cleanup") = 1 =>
                /\ sd.pc \in {"cleaning", "done"}
                /\ Count(sd.log, "bot.stop") = 1 =>
                      IndexOf(sd.log, "bot.stop") < IndexOf(sd.log, "cleanup")
          /\ sd.pc = "done" =>
                /\ Count(sd.log, "cleanup") = 1
                /\ sd.hadBot => Count(sd.log, "bot.stop") = 1)
    /\ [][ (sd.isShuttingDown /\ (sd'.calls # sd.calls \/ sd'.phase # sd.phase))
           => (sd'.log = sd.log /\ sd'.pc = sd.pc /\
               sd'.bot = sd.bot /\ sd'.client = sd.client) ]_vars

\* a shutdown in which bot.stop() failed, the client was destroyed all the
\* same, and a second shutdown() call was made
C19_Witness ==
    /\ sd.pc = "done"
    /\ sd.calls >= 2
    /\ sd.errors >= 1
    /\ sd.bot
    /\ sd.log = <<"bot.stop", "cleanup", "destroy">>

----------------------------------------------------------------------------
(* Part 5: PlayerTracker (playerTracker.ts).  tracker.returned is the value
   of the last call, tracker.before the count before it and tracker.present
   whether its key was tracked; tracker.view is the Set last handed out by
   the players getter and tracker.aliased says whether that Set is the
   tracker's own; tracker.run follows a run of increment calls made with
   spellings of one name that was absent when the run began: its first
   spelling, and whether a later one differed in case or had whitespace
   around it. *)

MaxNameLen == 2         \* longest username given to the tracker

NameChars == {"A", "a", " "}

Usernames == UNION {[1..n -> NameChars] : n \in 0..MaxNameLen}

normalize(username) == toNormalized(Trim(username))

updateCount(t) == [t EXCEPT !.count = Cardinality(t.players)]

incrementRaw(t, username) ==
    LET key == Trim(username)
    IN  IF Len(key) = 0
        THEN [t EXCEPT !.returned = t.count]
        ELSE LET added == updateCount([t EXCEPT !.players = @ \cup {key}])
             IN  [added EXCEPT !.returned = added.count]

increment(t, username) ==
    LET key == normalize(username)
    IN  IF Len(key) = 0
        THEN [t EXCEPT !.returned = t.count]
        ELSE LET added == updateCount([t EXCEPT !.players = @ \cup {key}])
             IN  [added EXCEPT !.returned = added.count]

decrementUnchecked(t, username) ==
    LET key == normalize(username)
    IN  IF Len(key) = 0
        THEN [t EXCEPT !.returned = t.count]
        ELSE [t EXCEPT !.players = @ \ {key},
                       !.count = @ - 1,
                       !.returned = t.count - 1]

decrement(t, username) ==
    LET key == normalize(username)
    IN  IF Len(key) = 0
        THEN [t EXCEPT !.returned = t.count]
        ELSE LET after == IF key \in t.players
                          THEN updateCount([t EXCEPT !.players = @ \ {key}])
                          ELSE t
             IN  [after EXCEPT !.returned = after.count]

resetKeepsCount(t) == [t EXCEPT !.players = {}, !.returned = NoValue]

reset(t) == [updateCount([t EXCEPT !.players = {}]) EXCEPT !.returned = NoValue]

playersGetterLive(t) == [t EXCEPT !.view = t.players, !.aliased = TRUE]

\* get players(): new Set(players)
playersGetter(t) == [t EXCEPT !.view = t.players, !.aliased = FALSE]

\* a Set that is the tracker's own changes with it, and the tracker with it
SyncView(t) == IF t.aliased THEN [t EXCEPT !.view = t.players] ELSE t

SyncPlayers(t) == IF t.aliased THEN [t EXCEPT !.players = t.view] ELSE t

NoRun == [key |-> <<>>, base |-> NoValue, calls |-> 0, first |-> <<>>,
          cased |-> FALSE, spaced |-> FALSE]

InitTracker ==
    /\ ConnIdle
    /\ pl = PlIdle
    /\ fan = FanIdle
    /\ sd = SdIdle
    /\ LateIdle
    /\ tracker = [count |-> 0, players |-> {}, returned |-> NoValue,
                  lastOp |-> "new", run |-> NoRun, view |-> {},
                  aliased |-> FALSE, before |-> 0, present |-> FALSE]

TrackerFrame == UNCHANGED <<connVars, plVars, fanVars, sdVars, lateVars>>

\* the run continues with another spelling of its name, or begins when the
\* name is absent
NextRun(username) ==
    LET key == toNormalized(Trim(username))
    IN  IF Len(key) = 0 THEN NoRun
        ELSE IF tracker.run.key = key
             THEN [tracker.run EXCEPT
                      !.calls = IF @ < 2 THEN @ + 1 ELSE @,
                      !.cased = @ \/ Trim(username) # tracker.run.first,
                      !.spaced = @ \/ Trim(username) # username]
        ELSE IF key \notin tracker.players
             THEN [key |-> key, base |-> tracker.count, calls |-> 1,
                   first |-> Trim(username), cased |-> FALSE,
                   spaced |-> Trim(username) # username]
        ELSE NoRun

\* the bookkeeping of one call: the count before it and whether its key
\* was tracked
Called(t, op, username) ==
    [t EXCEPT !.lastOp = op,
              !.before = tracker.count,
              !.present = toNormalized(Trim(username)) \in tracker.players]

Increment ==
    /\ \E username \in Usernames :
          tracker' = [Called(SyncView(increment(tracker, username)),
                             "increment", username)
                         EXCEPT !.run = NextRun(username)]
    /\ TrackerFrame

Decrement ==
    /\ \E username \in Usernames :
          tracker' = [Called(SyncView(decrement(tracker, username)),
                             "decrement", username)
                         EXCEPT !.run = NoRun]
    /\ TrackerFrame

Reset ==
    /\ tracker' = [Called(SyncView(reset(tracker)), "reset", <<>>)
                      EXCEPT !.run = NoRun]
    /\ TrackerFrame

\* a caller reads tracker.players
GetPlayers ==
    /\ tracker' = [playersGetter(tracker) EXCEPT !.lastOp = "players"]
    /\ TrackerFrame

\* the caller adds to, deletes from or clears the Set it was given
MutateView ==
    /\ \/ \E username \in Usernames :
             /\ Len(normalize(username)) > 0
             /\ tracker' = SyncPlayers([tracker EXCEPT
                               !.view = @ \cup {normalize(username)},
                               !.lastOp = "view.add"])
       \/ \E key \in tracker.view :
             tracker' = SyncPlayers([tracker EXCEPT !.view = @ \ {key},
                                                    !.lastOp = "view.delete"])
       \/ tracker' = SyncPlayers([tracker EXCEPT !.view = {},
                                                 !.lastOp = "view.clear"])
    /\ TrackerFrame

NextTracker ==
    \/ Increment
    \/ Decrement
    \/ Reset
    \/ GetPlayers
    \/ MutateView

SpecTracker == InitTracker /\ [][NextTracker]_vars

\* C20: during a run of increment calls with case and whitespace variants of
\* a name that was absent, the count is one more than before the run, and
\* every call returned the count
C20_IncrementIdempotent ==
    tracker.run.calls > 0 =>
        /\ tracker.count = tracker.run.base + 1
        /\ tracker.returned = tracker.count
        /\ tracker.count = Cardinality(tracker.players)

\* a run of at least two calls made with spellings that differ in case and
\* in surrounding whitespace
C20_Witness ==
    /\ tracker.run.calls >= 2
    /\ tracker.run.cased
    /\ tracker.run.spaced

TrackerCalls == {"increment", "decrement", "reset"}

ViewCalls == {"view.add", "view.delete", "view.clear"}

\* C21: the count is never below 0, and decrement of a name that is not
\* tracked (unknown, removed or blank) changes neither the count nor the set
\* and returns the count
C21_DecrementFloor ==
    /\ [](tracker.count >= 0 /\ tracker.count = Cardinality(tracker.players))
    /\ [][ (tracker'.lastOp = "decrement" /\ ~tracker'.present)
           => /\ tracker'.count = tracker.count
              /\ tracker'.players = tracker.players
              /\ tracker'.returned = tracker.count ]_vars

\* decrement of a name that is not tracked, on a tracker that tracks another
C21_Witness ==
    /\ tracker.lastOp = "decrement"
    /\ ~tracker.present
    /\ tracker.count > 0
    /\ tracker.returned = tracker.before

\* C22: after reset the count is 0, the set and a snapshot taken then are
\* empty, and the tracker is in the state of a new one
C22_ResetClears ==
    /\ [](tracker.lastOp = "reset" =>
             /\ tracker.count = 0
             /\ tracker.players = {})
    /\ [][ (tracker.lastOp = "reset" /\ tracker'.lastOp = "players")
           => tracker'.view = {} ]_vars

\* reset of a tracker that tracked two names
C22_Witness ==
    /\ tracker.lastOp = "reset"
    /\ tracker.before >= 2
    /\ tracker.count = 0

\* C23: a change made to a returned Set changes neither the count nor the
\* tracked names, and a call of the tracker does not change a Set returned
\* earlier
C23_Snapshot ==
    [][ /\ tracker'.lastOp \in ViewCalls
           => /\ tracker'.players = tracker.players
              /\ tracker'.count = tracker.count
        /\ tracker'.players # tracker.players
           => tracker'.view = tracker.view ]_vars

\* a returned Set that was changed and differs from the tracked names, which
\* changed as well since it was returned
C23_Witness ==
    /\ tracker.lastOp \in ViewCalls
    /\ tracker.view # {}
    /\ tracker.players # {}
    /\ tracker.view \cap tracker.players = {}

----------------------------------------------------------------------------
(* Part 6: the event parser (chatParser.parseChatMessage for a chat string
   of the session, logParser.parseChatLine for a line of the server log).
   Strings are sequences of characters; the timestamp of an event is left
   out. *)

MaxFragments == 2       \* fragments an input of the parser is built from

LineTerminators == {"\n", "\r"}

\* a field that is not set, and the result null; the metadata field stands
\* for metadata.clientVersion
Undefined == <<"undefined">>

NullMessage ==
    [type |-> "null", rawUsername |-> Undefined, username |-> Undefined,
     message |-> Undefined, metadata |-> Undefined]

JoinedText == <<" ", "j", "o", "i", "n", "e", "d">>
LeftText == <<" ", "l", "e", "f", "t">>
DiedText == <<" ", "d", "i", "e", "d">>
InfoTag == <<"[", "i", "n", "f", "o", "]", ":">>
UserTag == <<"U", "s", "e", "r", " ">> \o InfoTag
ChatTag == <<"C", "h", "a", "t", ":">>

Drop(s, n) == SubSeq(s, n + 1, Len(s))

\* `.` matches every character of s
NoLineTerminator(s) == \A i \in 1..Len(s) : s[i] \notin LineTerminators

\* lit occurs in s at position i; with the i flag letter case is ignored
OccursAt(s, i, lit, ignoreCase) ==
    /\ i >= 1
    /\ i + Len(lit) - 1 <= Len(s)
    /\ \A k \in 1..Len(lit) :
          IF ignoreCase THEN LowerOf(s[i + k - 1]) = LowerOf(lit[k])
          ELSE s[i + k - 1] = lit[k]

Least(S) == CHOOSE x \in S : \A y \in S : x <= y

\* the part of s before its first line terminator
FirstLine(s) ==
    IF NoLineTerminator(s) THEN s
    ELSE SubSeq(s, 1, Least({i \in 1..Len(s) : s[i] \in LineTerminators}) - 1)

\* /^\[(.+?)\]\s*([\s\S]*)$/ (dotAll) or /^\[(.+?)\]\s*(.*)$/: the positions
\* at which the bracket of the name can close.  After the greedy \s*, (.*)$
\* needs the rest of the input to hold no line terminator.
ChatCloses(text, dotAll) ==
    {j \in 3..Len(text) :
        /\ text[1] = "["
        /\ text[j] = "]"
        /\ NoLineTerminator(SubSeq(text, 2, j - 1))
        /\ dotAll \/ NoLineTerminator(TrimLeft(Drop(text, j)))}

\* /^(.+?) joined$/ and /^(.+?) left$/: the length of the name, 0 for no match
SuffixMatch(text, suffix) ==
    IF /\ Len(text) > Len(suffix)
       /\ OccursAt(text, Len(text) - Len(suffix) + 1, suffix, FALSE)
       /\ NoLineTerminator(text)
    THEN Len(text) - Len(suffix)
    ELSE 0

\* /^(.+?) died(.*)$/: the positions at which " died" can begin
DiedAt(text) ==
    {i \in 2..Len(text) : OccursAt(text, i, DiedText, FALSE) /\ NoLineTerminator(text)}

Event(type, rawUsername, message) ==
    [type |-> type, rawUsername |-> rawUsername,
     username |-> cleanUsername(rawUsername),
     message |-> message, metadata |-> Undefined]

parsePayloadJoinFirst(text, dotAll) ==
    IF SuffixMatch(text, JoinedText) > 0
    THEN Event("join", Trim(SubSeq(text, 1, SuffixMatch(text, JoinedText))), Undefined)
    ELSE IF ChatCloses(text, dotAll) # {}
    THEN LET j == Least(ChatCloses(text, dotAll))
         IN  Event("chat", Trim(SubSeq(text, 2, j - 1)), Trim(Drop(text, j)))
    ELSE IF SuffixMatch(text, LeftText) > 0
    THEN Event("leave", Trim(SubSeq(text, 1, SuffixMatch(text, LeftText))), Undefined)
    ELSE IF DiedAt(text) # {}
    THEN LET i == Least(DiedAt(text))
         IN  Event("death", Trim(SubSeq(text, 1, i - 1)), Trim(Drop(text, i)))
    ELSE NullMessage

\* the patterns in the order the code tries them
parsePayload(text, dotAll) ==
    IF ChatCloses(text, dotAll) # {}
    THEN LET j == Least(ChatCloses(text, dotAll))
         IN  Event("chat", Trim(SubSeq(text, 2, j - 1)), Trim(Drop(text, j)))
    ELSE IF SuffixMatch(text, JoinedText) > 0
    THEN Event("join", Trim(SubSeq(text, 1, SuffixMatch(text, JoinedText))), Undefined)
    ELSE IF SuffixMatch(text, LeftText) > 0
    THEN Event("leave", Trim(SubSeq(text, 1, SuffixMatch(text, LeftText))), Undefined)
    ELSE IF DiedAt(text) # {}
    THEN LET i == Least(DiedAt(text))
         IN  Event("death", Trim(SubSeq(text, 1, i - 1)), Trim(Drop(text, i)))
    ELSE NullMessage

parseChatMessageSingleLine(message) == parsePayload(message, FALSE)

parseChatMessage(message) == parsePayload(message, TRUE)

\* the first position from i on that holds no whitespace, Len(s) + 1 if none
SkipWs(s, i) ==
    Least({k \in i..(Len(s) + 1) : k = Len(s) + 1 \/ s[k] \notin Whitespace})

\* CHAT_PATTERN from "[info]:" at position p up to "Chat:": the position
\* after "Chat:", 0 for no match
AfterTags(s, p) ==
    LET q == SkipWs(s, p + Len(InfoTag))
        u == IF OccursAt(s, q, UserTag, TRUE) THEN SkipWs(s, q + Len(UserTag)) ELSE 0
    IN  IF ~OccursAt(s, p, InfoTag, TRUE) THEN 0
        ELSE IF u > 0 /\ OccursAt(s, u, ChatTag, TRUE) THEN u + Len(ChatTag)
        ELSE IF OccursAt(s, q, ChatTag, TRUE) THEN q + Len(ChatTag)
        ELSE 0

\* \s*(.+) on the rest of the line: the greedy \s* gives characters back
\* only when nothing but whitespace is left
PayloadOf(rest) ==
    LET text == TrimLeft(rest)
        back == {c \in 1..Len(rest) : rest[c] \notin LineTerminators}
    IN  IF text # <<>> THEN FirstLine(text)
        ELSE IF back # {}
        THEN FirstLine(Drop(rest, (CHOOSE c \in back : \A e \in back : e <= c) - 1))
        ELSE Undefined

\* CHAT_PATTERN.exec(rawLine): match[1], Undefined for no match
chatPattern(rawLine) ==
    LET starts == {p \in 1..Len(rawLine) :
                     /\ AfterTags(rawLine, p) > 0
                     /\ PayloadOf(Drop(rawLine, AfterTags(rawLine, p) - 1)) # Undefined}
    IN  IF starts = {} THEN Undefined
        ELSE PayloadOf(Drop(rawLine, AfterTags(rawLine, Least(starts)) - 1))

parseChatLine(rawLine) ==
    IF chatPattern(rawLine) = Undefined THEN NullMessage
    ELSE parsePayload(Trim(chatPattern(rawLine)), FALSE)

\* the number of line breaks (\r\n, \r or \n) a run of line terminators holds
RECURSIVE Breaks(_)
Breaks(run) ==
    IF run = <<>> THEN 0
    ELSE IF Len(run) >= 2 /\ run[1] = "\r" /\ run[2] = "\n"
         THEN 1 + Breaks(Drop(run, 2))
         ELSE 1 + Breaks(Tail(run))

\* the length of the run of line terminators s begins with
RunLength(s) ==
    Least({k \in 0..Len(s) : k = Len(s) \/ s[k + 1] \notin LineTerminators})

\* value.replace(/(?:\r\n|\r|\n){2,}/g, "\n")
RECURSIVE Collapse(_)
Collapse(s) ==
    IF s = <<>> THEN <<>>
    ELSE IF RunLength(s) = 0 THEN <<Head(s)>> \o Collapse(Tail(s))
    ELSE IF Breaks(SubSeq(s, 1, RunLength(s))) >= 2
         THEN <<"\n">> \o Collapse(Drop(s, RunLength(s)))
         ELSE SubSeq(s, 1, RunLength(s)) \o Collapse(Drop(s, RunLength(s)))

\* BotConnectionManager.handleChat: the chat message it emits, if any
handleChat(message) ==
    LET trimmed == Collapse(Trim(message))
    IN  IF Len(trimmed) = 0 THEN NullMessage ELSE parseChatMessage(trimmed)

\* emitChatMessage: an event whose cleaned name is empty is not emitted
emitChatMessage(p, chatMessage) ==
    IF Len(chatMessage.username) = 0
    THEN p
    ELSE [p EXCEPT !.emitted = Append(@, chatMessage)]

\* the chat handler that parses whatever the session reports
onChatUnguarded(p, message) ==
    LET trimmed == Collapse(Trim(message))
        chatMessage == parseChatMessage(trimmed)
        p1 == [p EXCEPT !.via = "handleChat", !.subject = trimmed,
                        !.parserCalls = 1, !.result = chatMessage,
                        !.emitted = <<>>]
    IN  IF chatMessage.type # "null" THEN emitChatMessage(p1, chatMessage) ELSE p1

\* BotConnectionManager.handleChat as a step of the manager: the parser is
\* called on a text that is not blank, its event is handed to
\* emitChatMessage; parserCalls and emitted are those of this step
onChat(p, message) ==
    LET trimmed == Collapse(Trim(message))
        chatMessage == parseChatMessage(trimmed)
        p0 == [p EXCEPT !.via = "handleChat", !.subject = trimmed,
                        !.parserCalls = 0, !.result = NullMessage,
                        !.emitted = <<>>]
        p1 == [p0 EXCEPT !.parserCalls = 1, !.result = chatMessage]
    IN  IF Len(trimmed) = 0 THEN p0
        ELSE IF chatMessage.type # "null" THEN emitChatMessage(p1, chatMessage)
        ELSE p1

VersionedJoinText ==
    JoinedText \o <<" ", "u", "s", "i", "n", "g", " ",
                    "v", "e", "r", "s", "i", "o", "n", " ">>
VersionText == <<"1", ".", "2">>

Fragments ==
    { <<"[", "B", "]">>, <<"[", "*", "]">>, <<"B">>, <<" ">>, <<"\n">>,
      <<"h", "\n", "w">>,
      JoinedText, LeftText, DiedText, <<"B">> \o DiedText,
      <<"B">> \o VersionedJoinText \o VersionText, <<".">> }

RECURSIVE InputsOf(_)
InputsOf(n) ==
    IF n = 0 THEN {<<>>}
    ELSE InputsOf(n - 1) \cup {x \o f : x \in InputsOf(n - 1), f \in Fragments}

ParserInputs == InputsOf(MaxFragments)

LogPrefixes ==
    { <<>>,
      InfoTag \o <<" ">> \o ChatTag \o <<" ">>,
      InfoTag \o <<" ", "U", "s", "e", "r", " ">> }

InitParser ==
    /\ ConnIdle
    /\ pl = PlIdle
    /\ fan = FanIdle
    /\ sd = SdIdle
    /\ tracker = TrackerIdle
    /\ parsed \in [input : ParserInputs, via : {"none"}, subject : {<<>>},
                   result : {NullMessage}, parserCalls : {0}, emitted : {<<>>}]
    /\ cleaned = CleanedIdle
    /\ relay = RelayIdle
    /\ outbound = OutboundIdle
    /\ startup = StartupIdle
    /\ loaded = LoadedIdle
    /\ sink = SinkIdle

ParserFrame ==
    UNCHANGED <<connVars, plVars, fanVars, sdVars, trackerVars,
                cleanedVars, relayVars, outboundVars, startupVars,
                loadedVars, sinkVars>>

\* the parser is given the input as a chat string of the session
ParseMessage ==
    /\ parsed' = [parsed EXCEPT !.via = "parseChatMessage",
                                !.subject = parsed.input,
                                !.result = parseChatMessage(parsed.input)]
    /\ ParserFrame

\* the connection manager's chat handler is given the input
HandleChat ==
    /\ parsed' = onChat(parsed, parsed.input)
    /\ ParserFrame

\* the log parser is given a line of the server log that ends with the
\* input; readNewLines splits the log at "\n"
ParseLine ==
    /\ NoLineTerminator(parsed.input)
    /\ \E prefix \in LogPrefixes :
          parsed' = [parsed EXCEPT !.via = "parseChatLine",
                                   !.subject = prefix \o parsed.input,
                                   !.result = parseChatLine(prefix \o parsed.input)]
    /\ ParserFrame

NextParser ==
    \/ ParseMessage
    \/ HandleChat
    \/ ParseLine

SpecParser == InitParser /\ [][NextParser]_vars

\* text begins with a bracketed name
Bracketed(text) ==
    /\ Len(text) >= 3
    /\ text[1] = "["
    /\ \E j \in 3..Len(text) :
          text[j] = "]" /\ NoLineTerminator(SubSeq(text, 2, j - 1))

EndsWith(text, suffix) ==
    /\ Len(text) > Len(suffix)
    /\ SubSeq(text, Len(text) - Len(suffix) + 1, Len(text)) = suffix

Contains(text, part) ==
    \E i \in 2..(Len(text) - Len(part) + 1) :
        SubSeq(text, i, i + Len(part) - 1) = part

\* the kind of the earliest pattern a one-line text matches
EarliestKind(text) ==
    IF Bracketed(text) THEN "chat"
    ELSE IF EndsWith(text, JoinedText) THEN "join"
    ELSE IF EndsWith(text, LeftText) THEN "leave"
    ELSE IF Contains(text, DiedText) THEN "death"
    ELSE "null"

\* what the patterns are applied to: the chat string, or the trimmed rest of
\* a log line after "Chat:"
Payload ==
    IF parsed.via = "parseChatLine"
    THEN IF OccursAt(parsed.subject, 1, InfoTag \o <<" ">> \o ChatTag, FALSE)
         THEN Trim(parsed.input)
         ELSE <<>>
    ELSE parsed.subject

VersionedNameLen(text) ==
    LET tail == VersionedJoinText \o VersionText
        body == IF text # <<>> /\ text[Len(text)] = "." 
                THEN SubSeq(text, 1, Len(text) - 1) ELSE text
    IN  IF /\ EndsWith(body, tail)
           /\ NoLineTerminator(text)
           /\ ~Bracketed(text)
        THEN Len(body) - Len(tail)
        ELSE 0

\* the text the test of versioned join lines puts after "[info]: User ", or
\* the chat string
JoinSubject ==
    IF parsed.via = "parseChatLine"
    THEN IF OccursAt(parsed.subject, 1, InfoTag \o <<" ", "U">>, FALSE)
         THEN parsed.input
         ELSE <<>>
    ELSE parsed.subject

\* C25: "<name> joined using version <v>", with or without a period at the
\* end, is a join event of normalize(<name>) whose clientVersion is <v>
C25_VersionedJoin ==
    (parsed.via # "none" /\ VersionedNameLen(JoinSubject) > 0) =>
        /\ parsed.result.type = "join"
        /\ parsed.result.username =
              cleanUsername(SubSeq(JoinSubject, 1, VersionedNameLen(JoinSubject)))
        /\ parsed.result.metadata = VersionText

FirstClose(text) == Least({j \in 3..Len(text) : text[j] = "]"})

\* C26: a chat string with a bracketed name and line breaks in its body is
\* one chat event whose text is the whole body, trimmed, line breaks included
C26_MultilineChat ==
    (parsed.via \in {"parseChatMessage", "handleChat"} /\ Bracketed(parsed.subject)) =>
        /\ parsed.result.type = "chat"
        /\ parsed.result.message =
              Trim(Drop(parsed.subject, FirstClose(parsed.subject)))

\* a chat event whose text holds a line break between two words
C26_Witness ==
    /\ parsed.via = "parseChatMessage"
    /\ parsed.result.type = "chat"
    /\ parsed.result.message = <<"h", "\n", "w">>

\* text matches one of the four patterns of the parser
MatchesPattern(text) ==
    \/ Bracketed(text)
    \/ NoLineTerminator(text) /\ EarliestKind(text) # "null"

\* every field the kind of the event requires is set
WholeEvent(ev) ==
    /\ ev.type \in {"chat", "join", "leave", "death"}
    /\ ev.rawUsername # Undefined
    /\ ev.username = cleanUsername(ev.rawUsername)
    /\ ev.type \in {"chat", "death"} <=> ev.message # Undefined

\* C31: for a raw chat string of the session the manager emits a chat event
\* only if the string, trimmed and with its runs of line breaks collapsed, is
\* not empty and matches a pattern of the parser; a blank string does not
\* reach the parser; a string that matches no pattern gives no event; an
\* emitted event is whole; the manager's state is what it was.
C31_ChatOnlyIfParsed ==
    /\ [](parsed.via = "handleChat" =>
            /\ parsed.subject = Collapse(Trim(parsed.input))
            /\ Len(parsed.emitted) <= 1
            /\ parsed.emitted # <<>> =>
                  /\ Len(parsed.subject) > 0
                  /\ MatchesPattern(parsed.subject)
                  /\ parsed.emitted = <<parsed.result>>
                  /\ WholeEvent(parsed.emitted[1])
            /\ Len(Trim(parsed.input)) = 0 => parsed.parserCalls = 0
            /\ ~MatchesPattern(parsed.subject) => parsed.emitted = <<>>)
    /\ [][parsed'.via = "handleChat" => UNCHANGED connVars]_vars

\* a death event emitted for a string the handler had to trim
C31_Witness ==
    /\ parsed.via = "handleChat"
    /\ parsed.emitted # <<>>
    /\ parsed.emitted[1].type = "death"
    /\ parsed.input # parsed.subject

-----------------------------------------------------------------------------
(* Part 7: cleanUsername on names with a colour code before every character *)

MaxUnits == 2           \* most coloured characters in one raw name

\* "#" and six hexadecimal digits
ColorCodes ==
    { <<"#", "6", "A", "5", "A", "C", "D">>,
      <<"#", "f", "f", "d", "7", "0", "0">> }

\* the characters a name is made of: Latin letters (hexadecimal digits or
\* not), digits and Cyrillic letters
PayloadChars == {"M", "e", "c", "7", "<U+0441>", "<U+0412>"}

\* the formatting around the name
Decorations == { <<>>, <<"*", "*", "*">>, <<"~", "~">> }

\* the colour resets that follow the name
TrailingCodes ==
    { <<>>,
      <<"§", "#", "f", "f", "f", "f", "0", "0">>,
      <<"§", "#", "c", "c", "c", "c", "c", "c",
        "§", "#", "f", "f", "f", "f", "0", "0">> }

Units == UNION {[1..n -> ColorCodes \X PayloadChars] : n \in 1..MaxUnits}

RECURSIVE Flatten(_)
Flatten(units) ==
    IF units = <<>> THEN <<>>
    ELSE Head(units)[1] \o <<Head(units)[2]>> \o Flatten(Tail(units))

\* the raw name: decoration, units, decoration, trailing colour codes
RawOf(units, decoration, trailing) ==
    decoration \o Flatten(units) \o decoration \o trailing

PayloadOfUnits(units) == [i \in 1..Len(units) |-> units[i][2]]

InitClean ==
    /\ ConnIdle
    /\ pl = PlIdle
    /\ fan = FanIdle
    /\ sd = SdIdle
    /\ tracker = TrackerIdle
    /\ parsed = ParsedIdle
    /\ \E units \in Units, decoration \in Decorations, trailing \in TrailingCodes :
          cleaned = [raw |-> RawOf(units, decoration, trailing),
                     payload |-> PayloadOfUnits(units),
                     called |-> FALSE,
                     result |-> <<>>]
    /\ relay = RelayIdle
    /\ outbound = OutboundIdle
    /\ startup = StartupIdle
    /\ loaded = LoadedIdle
    /\ sink = SinkIdle

CleanFrame ==
    UNCHANGED <<connVars, plVars, fanVars, sdVars, trackerVars,
                parsedVars, relayVars, outboundVars, startupVars,
                loadedVars, sinkVars>>

\* cleanUsername(raw)
Clean ==
    /\ ~cleaned.called
    /\ cleaned' = [cleaned EXCEPT !.called = TRUE,
                                  !.result = cleanUsername(cleaned.raw)]
    /\ CleanFrame

NextClean == Clean

SpecClean == InitClean /\ [][NextClean]_vars

\* C27: for a raw name made of (colour code, one character) units, wrapped
\* or not in decoration characters and followed or not by colour resets,
\* cleanUsername returns the characters of the units in order, the
\* non-Latin letters among them included.
C27_PayloadRebuilt ==
    cleaned.called => cleaned.result = cleaned.payload

\* the name of the test: "***#6A5ACDM#ffd700<U+0441>***" and a colour reset
C27_Witness ==
    /\ cleaned.called
    /\ cleaned.raw = <<"*", "*", "*">>
                      \o <<"#", "6", "A", "5", "A", "C", "D", "M">>
                      \o <<"#", "f", "f", "d", "7", "0", "0", "<U+0441>">>
                      \o <<"*", "*", "*">>
                      \o <<"§", "#", "f", "f", "f", "f", "0", "0">>
    /\ cleaned.result = <<"M", "<U+0441>">>

-----------------------------------------------------------------------------
(* Part 8: messages of the Discord channel relayed into the game *)

MaxContentFragments == 2    \* most fragments in the content of one message

DEFAULT_CUBYZ_COLOR_RESET == "#FFFFFF"

ListCommand == <<"/", "l", "i", "s", "t">>

ContentFragments == { <<" ">>, <<"\n">>, <<"h">>, ListCommand }

RECURSIVE ContentsOf(_)
ContentsOf(n) ==
    IF n = 0 THEN {<<>>}
    ELSE ContentsOf(n - 1) \cup
         {c \o f : c \in ContentsOf(n - 1), f \in ContentFragments}

Contents == ContentsOf(MaxContentFragments)

\* the authors of a message; Discord sets author.bot for the relay's own
\* account and for every other bot account
Authors == {"user", "relay", "otherBot"}

AuthorIsBot(author) == author \in {"relay", "otherBot"}

\* member.displayHexColor: unset or "#000000", white, another colour
HexColors == {"#000000", "#ffffff", "#ff0000"}

\* input.replace(/\s+/g, " ")
RECURSIVE SquashWhitespace(_)
SquashWhitespace(input) ==
    IF input = <<>> THEN <<>>
    ELSE IF Head(input) \in Whitespace
         THEN <<" ">> \o SquashWhitespace(TrimLeft(input))
         ELSE <<Head(input)>> \o SquashWhitespace(Tail(input))

collapseWhitespace(input) == Trim(SquashWhitespace(input))

\* content.split(/\s+/, 1)[0]
FirstWord(content) ==
    IF \E i \in 1..Len(content) : content[i] \in Whitespace
    THEN SubSeq(content, 1,
                (CHOOSE i \in 1..Len(content) :
                    /\ content[i] \in Whitespace
                    /\ \A j \in 1..(i - 1) : content[j] \notin Whitespace) - 1)
    ELSE content

\* handleCommand: "/list" is answered in the channel, every other command
\* is not handled
handleCommand(content) == toNormalized(FirstWord(content)) = ListCommand

resolveDiscordDisplayName(message) ==
    IF cleanUsername(message.displayName) # <<>>
    THEN cleanUsername(message.displayName)
    ELSE <<"User">>

resolveDiscordHexColor(message) ==
    IF message.hex = "#000000" THEN "null"
    ELSE IF message.hex = "#ffffff" THEN "#FFFFFF" ELSE "#FF0000"

\* `${color}${name}${DEFAULT_CUBYZ_COLOR_RESET}: ${text}` or `${name}: ${text}`
payloadOf(message, text) ==
    LET name == resolveDiscordDisplayName(message)
        color == resolveDiscordHexColor(message)
    IN  IF color # "null" /\ color # DEFAULT_CUBYZ_COLOR_RESET
        THEN <<color>> \o name \o <<DEFAULT_CUBYZ_COLOR_RESET, ":", " ">> \o text
        ELSE name \o <<":", " ">> \o text

\* the listener of setupDiscordChatRelay without the test of the author
chatRelayAnyAuthor(r) ==
    LET message == r.message
        normalizedContent == collapseWhitespace(message.cleanContent)
    IN  IF ~message.inChannel THEN r
        ELSE IF normalizedContent = <<>> THEN r
        ELSE IF ~r.bot
             THEN [r EXCEPT !.log = Append(@, "warn")]
        ELSE [r EXCEPT !.sendChat = Append(@, payloadOf(message, normalizedContent))]

\* the messageCreate listener of setupDiscordChatRelay
chatRelay(r) ==
    LET message == r.message
        normalizedContent == collapseWhitespace(message.cleanContent)
    IN  IF ~message.inChannel THEN r
        ELSE IF AuthorIsBot(message.author) \/ message.system THEN r
        ELSE IF normalizedContent = <<>> THEN r
        ELSE IF ~r.bot
             THEN [r EXCEPT !.log = Append(@, "warn")]
        ELSE [r EXCEPT !.sendChat = Append(@, payloadOf(message, normalizedContent))]

\* DiscordIntegration.handleMessageCreate
handleMessageCreate(r) ==
    LET message == r.message
        normalizedContent == collapseWhitespace(message.cleanContent)
        fullMessage == IF message.referenced
                       THEN <<"replying to", " ", "-", " ">> \o normalizedContent
                       ELSE normalizedContent
    IN  IF ~r.active THEN r
        ELSE IF ~message.inChannel THEN r
        ELSE IF AuthorIsBot(message.author) \/ message.system THEN r
        ELSE IF normalizedContent = <<>> THEN r
        ELSE IF Head(normalizedContent) = "/" /\ handleCommand(normalizedContent)
             THEN [r EXCEPT !.replies = Append(@, "list")]
        ELSE IF ~r.bot
             THEN [r EXCEPT !.log = Append(@, "warn")]
        ELSE [r EXCEPT !.sendChat = Append(@, payloadOf(message, fullMessage))]

Messages ==
    [inChannel : BOOLEAN, author : Authors, system : BOOLEAN,
     cleanContent : Contents, displayName : {<<"*", "U", "*">>},
     hex : HexColors, referenced : BOOLEAN]

InitRelay ==
    /\ ConnIdle
    /\ pl = PlIdle
    /\ fan = FanIdle
    /\ sd = SdIdle
    /\ tracker = TrackerIdle
    /\ parsed = ParsedIdle
    /\ cleaned = CleanedIdle
    /\ relay \in [message : Messages, bot : BOOLEAN, active : BOOLEAN,
                   seen : {{}}, sendChat : {<<>>}, log : {<<>>}, replies : {<<>>}]
    /\ outbound = OutboundIdle
    /\ startup = StartupIdle
    /\ loaded = LoadedIdle
    /\ sink = SinkIdle

RelayFrame ==
    UNCHANGED <<connVars, plVars, fanVars, sdVars, trackerVars,
                parsedVars, cleanedVars, outboundVars, startupVars,
                loadedVars, sinkVars>>

\* the client delivers the message to the listener of index.ts
ChatRelay ==
    /\ "index" \notin relay.seen
    /\ relay' = [chatRelay(relay) EXCEPT !.seen = @ \cup {"index"}]
    /\ RelayFrame

\* the client delivers the message to the listener of the integration
HandleMessageCreate ==
    /\ "integration" \notin relay.seen
    /\ relay' = [handleMessageCreate(relay) EXCEPT !.seen = @ \cup {"integration"}]
    /\ RelayFrame

NextRelay ==
    \/ ChatRelay
    \/ HandleMessageCreate

SpecRelay == InitRelay /\ [][NextRelay]_vars

Forwardable(message) ==
    /\ message.inChannel
    /\ message.author = "user"
    /\ ~message.system
    /\ collapseWhitespace(message.cleanContent) # <<>>

\* C28: sendChat is called for a message of the platform only if the
\* message was posted in the configured channel, its author is neither a
\* bot (the relay included) nor the system, and its content with the
\* whitespace collapsed is not empty; no other message reaches sendChat.
C28_OnlyForwardable ==
    relay.sendChat # <<>> => Forwardable(relay.message)

\* both listeners forwarded a user's message whose content had whitespace
\* to collapse
C28_Witness ==
    /\ relay.seen = {"index", "integration"}
    /\ Len(relay.sendChat) = 2
    /\ relay.message.cleanContent = <<"h", "\n">>

-----------------------------------------------------------------------------
(* Part 9: sendMessage of discordClient.ts and its callers *)

MaxSendCalls == 2       \* most calls of sendMessage in one run

maxAttempts == 3

BackoffMs == 500

Notifications == { <<>>, <<" ">>, <<"m">> }

\* the callers of sendMessage: DiscordIntegration.sendMessage and the
\* listeners of index.ts
Callers == {"integration", "index"}

NoCall ==
    [pc |-> "idle", caller |-> "none", attempt |-> 0, sends |-> 0,
     delays |-> <<>>, lastSend |-> "none"]

\* the catch block of the loop where the last attempt is retried as well
onSendErrorUnbounded(o) ==
    IF o.attempt = maxAttempts + 1
    THEN [o EXCEPT !.pc = "thrown"]
    ELSE [o EXCEPT !.pc = "waiting", !.delays = Append(@, BackoffMs * o.attempt)]

\* the catch block of the loop: throw after the last attempt, else wait
onSendError(o) ==
    IF o.attempt = maxAttempts
    THEN [o EXCEPT !.pc = "thrown"]
    ELSE [o EXCEPT !.pc = "waiting", !.delays = Append(@, BackoffMs * o.attempt)]

InitOutbound ==
    /\ ConnIdle
    /\ pl = PlIdle
    /\ fan = FanIdle
    /\ sd = SdIdle
    /\ tracker = TrackerIdle
    /\ parsed = ParsedIdle
    /\ cleaned = CleanedIdle
    /\ relay = RelayIdle
    /\ startup = StartupIdle
    /\ loaded = LoadedIdle
    /\ sink = SinkIdle
    /\ outbound = [call |-> NoCall, calls |-> 0, active |-> TRUE,
                   log |-> <<>>, delivered |-> 0]

OutboundFrame ==
    UNCHANGED <<connVars, plVars, fanVars, sdVars, trackerVars,
                parsedVars, cleanedVars, relayVars, startupVars,
                loadedVars, sinkVars>>

CallOver == outbound.call.pc \in {"idle", "returned", "skipped", "dropped"}

\* DiscordIntegration.sendMessage(message): nothing is sent when the
\* integration is not active or the message is blank
IntegrationSend ==
    /\ CallOver
    /\ outbound.calls < MaxSendCalls
    /\ \E message \in Notifications, active \in BOOLEAN :
          outbound' = [outbound EXCEPT
              !.active = active,
              !.calls = @ + 1,
              !.call = IF ~active \/ Len(Trim(message)) = 0
                       THEN [NoCall EXCEPT !.pc = "skipped", !.caller = "integration"]
                       ELSE [NoCall EXCEPT !.pc = "getChannel", !.caller = "integration"]]
    /\ OutboundFrame

\* a listener of index.ts calls sendMessage(channelId, payload)
IndexSend ==
    /\ CallOver
    /\ outbound.calls < MaxSendCalls
    /\ outbound' = [outbound EXCEPT
          !.calls = @ + 1,
          !.call = [NoCall EXCEPT !.pc = "getChannel", !.caller = "index"]]
    /\ OutboundFrame

\* getChannel resolves: the loop starts with attempt 1
ChannelFound ==
    /\ outbound.call.pc = "getChannel"
    /\ outbound' = [outbound EXCEPT !.call.pc = "sending", !.call.attempt = 1]
    /\ OutboundFrame

\* getChannel rejects: sendMessage throws before the loop
ChannelMissing ==
    /\ outbound.call.pc = "getChannel"
    /\ outbound' = [outbound EXCEPT !.call.pc = "thrown"]
    /\ OutboundFrame

\* channel.send resolves: sendMessage returns the sent message
SendResolves ==
    /\ outbound.call.pc = "sending"
    /\ outbound' = [outbound EXCEPT !.call.pc = "returned",
                                    !.call.sends = @ + 1,
                                    !.call.lastSend = "resolved",
                                    !.delivered = @ + 1]
    /\ OutboundFrame

\* channel.send rejects
SendRejects ==
    /\ outbound.call.pc = "sending"
    /\ outbound' = [outbound EXCEPT
          !.call = onSendError([outbound.call EXCEPT !.sends = @ + 1,
                                                     !.lastSend = "rejected"])]
    /\ OutboundFrame

\* the timer of the delay fires: the next attempt
DelayOver ==
    /\ outbound.call.pc = "waiting"
    /\ outbound' = [outbound EXCEPT !.call.pc = "sending",
                                    !.call.attempt = @ + 1]
    /\ OutboundFrame

\* the catch block of the caller logs the error
CallerCatches ==
    /\ outbound.call.pc = "thrown"
    /\ outbound' = [outbound EXCEPT !.call.pc = "dropped",
                                    !.log = Append(@, "error")]
    /\ OutboundFrame

NextOutbound ==
    \/ IntegrationSend
    \/ IndexSend
    \/ ChannelFound
    \/ ChannelMissing
    \/ SendResolves
    \/ SendRejects
    \/ DelayOver
    \/ CallerCatches

SpecOutbound == InitOutbound /\ [][NextOutbound]_vars

\* C29: one call of sendMessage makes at most 3 attempts; it returns at the
\* first attempt that succeeds and makes no attempt after it; before attempt
\* n + 1 it waits 500 ms times n; when the third attempt fails the error is
\* thrown to the caller, which logs it and drops the message: nothing is
\* delivered, the caller goes on and the connection manager's state stays
\* as it was.
C29_BoundedRetry ==
    /\ [](/\ outbound.call.sends <= 3
          /\ \A i \in DOMAIN outbound.call.delays : outbound.call.delays[i] = 500 * i
          /\ outbound.call.pc = "sending"
                => Len(outbound.call.delays) = outbound.call.sends
          /\ outbound.call.pc = "returned"
                => outbound.call.lastSend = "resolved"
          /\ (outbound.call.sends = 3 /\ outbound.call.lastSend = "rejected")
                => outbound.call.pc \in {"thrown", "dropped"})
    /\ [][ /\ outbound.call.lastSend = "resolved"
               => (outbound'.call.sends = outbound.call.sends
                   \/ outbound'.calls = outbound.calls + 1)
           /\ outbound.call.pc = "thrown"
               => /\ outbound'.call.pc = "dropped"
                  /\ outbound'.log = Append(outbound.log, "error")
                  /\ outbound'.delivered = outbound.delivered
                  /\ UNCHANGED connVars ]_vars

\* three attempts failed, with waits of 500 and 1000 ms between them, and
\* the caller logged the error
C29_Witness ==
    /\ outbound.call.pc = "dropped"
    /\ outbound.call.sends = 3
    /\ outbound.call.delays = <<500, 1000>>
    /\ outbound.log # <<>>

-----------------------------------------------------------------------------
(* Part 10: the startup messages the connected listener of index.ts sends *)

MaxStartupMessages == 3     \* most configured startup messages
MaxConnections == 2         \* most connected events in one run

\* config.startupMessages: an array of non-empty strings; the i-th
\* configured message is "a" written i times
StartupText(i) == [j \in 1..i |-> "a"]

StartupConfigs ==
    {[i \in 1..n |-> StartupText(i)] : n \in 0..MaxStartupMessages}

\* activeBot.sendChat(message) inside try/catch: the message is recorded as
\* passed to sendChat, forwarded to the session if the manager is
\* connected, and "threw" is remembered for the catch block otherwise;
\* bot.forwarded is what this call handed to the session
callSendChat(s, i, message) ==
    LET w == sendChat([s.bot EXCEPT !.thrown = "none", !.forwarded = <<>>],
                      message)
    IN  [s EXCEPT !.bot = w,
                  !.runs[i].calls = Append(@, message),
                  !.runs[i].outcome = IF w.thrown = "none" THEN "ok" ELSE "threw"]

\* the listener up to its first await: the flag is set and the first
\* startup message, if any, is passed to sendChat
onConnectedStartup(s) ==
    LET i == Len(s.runs) + 1
        s1 == [s EXCEPT !.hasActiveConnection = TRUE,
                        !.runs = Append(@, [pos |-> 1, calls |-> <<>>,
                                            outcome |-> "none", errors |-> 0,
                                            pc |-> "notice"])]
    IN  IF Len(s.messages) > 0
        THEN callSendChat([s1 EXCEPT !.runs[i].pc = "awaiting"], i, s.messages[1])
        ELSE s1

\* the loop where one try/catch surrounds all iterations: a rejected
\* sendChat ends the loop
continueStartupAbort(s, i) ==
    LET threw == s.runs[i].outcome = "threw"
        s1 == IF threw THEN [s EXCEPT !.runs[i].errors = @ + 1] ELSE s
        next == s.runs[i].pos + 1
    IN  IF ~threw /\ next <= Len(s.messages)
        THEN callSendChat([s1 EXCEPT !.runs[i].pos = next], i, s.messages[next])
        ELSE [s1 EXCEPT !.runs[i].pc = "notice", !.runs[i].outcome = "none"]

\* the listener resumes after `await activeBot.sendChat(message)`: a
\* rejection is logged by the catch block, then the next message is passed
\* to sendChat or, after the last one, the notice is sent to Discord
continueStartup(s, i) ==
    LET s1 == IF s.runs[i].outcome = "threw"
              THEN [s EXCEPT !.runs[i].errors = @ + 1]
              ELSE s
        next == s.runs[i].pos + 1
    IN  IF next <= Len(s.messages)
        THEN callSendChat([s1 EXCEPT !.runs[i].pos = next], i, s.messages[next])
        ELSE [s1 EXCEPT !.runs[i].pc = "notice", !.runs[i].outcome = "none"]

InitStartup ==
    /\ ConnIdle
    /\ pl = PlIdle
    /\ fan = FanIdle
    /\ sd = SdIdle
    /\ tracker = TrackerIdle
    /\ parsed = ParsedIdle
    /\ cleaned = CleanedIdle
    /\ relay = RelayIdle
    /\ outbound = OutboundIdle
    /\ \E messages \in StartupConfigs :
          startup = [messages |-> messages,
                     bot |-> [state |-> "stopped", connection |-> Null,
                              forwarded |-> <<>>, thrown |-> "none"],
                     hasActiveConnection |-> FALSE,
                     runs |-> <<>>]
    /\ loaded = LoadedIdle
    /\ sink = SinkIdle

StartupFrame ==
    UNCHANGED <<connVars, plVars, fanVars, sdVars, trackerVars,
                parsedVars, cleanedVars, relayVars, outboundVars,
                loadedVars, sinkVars>>

\* main() calls bot.start()
StartupStart ==
    /\ startup.bot.state = "stopped"
    /\ startup.runs = <<>>
    /\ startup' = [startup EXCEPT !.bot.state = "connecting"]
    /\ StartupFrame

\* the session reports connected: handleConnected sets the state and emits
\* connected, the listener of index.ts runs up to its first await
StartupConnected ==
    /\ startup.bot.state = "connecting"
    /\ Len(startup.runs) < MaxConnections
    /\ startup' = onConnectedStartup(
                      [startup EXCEPT !.bot.state = "connected",
                                      !.bot.connection = Len(startup.runs) + 1])
    /\ StartupFrame

\* the server drops the session: the manager goes back to connecting
StartupDisconnected ==
    /\ startup.bot.state = "connected"
    /\ startup' = [startup EXCEPT !.bot.state = "connecting",
                                  !.bot.connection = Null,
                                  !.hasActiveConnection = FALSE]
    /\ StartupFrame

\* run i of the listener resumes after an awaited sendChat
ContinueStartup(i) ==
    /\ i \in DOMAIN startup.runs
    /\ startup.runs[i].pc = "awaiting"
    /\ startup' = continueStartup(startup, i)
    /\ StartupFrame

\* run i of the listener ends: sendMessage to Discord has settled
StartupNotice(i) ==
    /\ i \in DOMAIN startup.runs
    /\ startup.runs[i].pc = "notice"
    /\ startup' = [startup EXCEPT !.runs[i].pc = "done"]
    /\ StartupFrame

NextStartup ==
    \/ StartupStart
    \/ StartupConnected
    \/ StartupDisconnected
    \/ \E i \in 1..MaxConnections : ContinueStartup(i)
    \/ \E i \in 1..MaxConnections : StartupNotice(i)

SpecStartup == InitStartup /\ [][NextStartup]_vars

\* a listener suspended at an await is resumed by the event loop
SpecStartupFair ==
    /\ SpecStartup
    /\ \A i \in 1..MaxConnections : WF_vars(ContinueStartup(i))
    /\ \A i \in 1..MaxConnections : WF_vars(StartupNotice(i))

\* C30: after every connected event, the first and every later one, each
\* configured startup message is passed to sendChat exactly once and in the
\* configured order, whether or not the sendChat of an earlier message
\* failed.
C30_StartupMessages ==
    /\ [](\A i \in DOMAIN startup.runs :
            /\ Len(startup.runs[i].calls) <= Len(startup.messages)
            /\ startup.runs[i].calls
                  = SubSeq(startup.messages, 1, Len(startup.runs[i].calls))
            /\ startup.runs[i].pc \in {"notice", "done"}
                  => startup.runs[i].calls = startup.messages)
    /\ \A i \in 1..MaxConnections :
          (Len(startup.runs) >= i)
              ~> (/\ Len(startup.runs) >= i
                  /\ startup.runs[i].pc = "done"
                  /\ startup.runs[i].calls = startup.messages)

\* on the first connection the second message failed and the third was
\* passed to sendChat all the same; the second connection got all three
C30_Witness ==
    /\ Len(startup.messages) = 3
    /\ Len(startup.runs) = 2
    /\ startup.runs[1].errors > 0
    /\ startup.runs[1].calls = startup.messages
    /\ startup.runs[2].calls = startup.messages
    /\ startup.runs[2].pc = "done"

-----------------------------------------------------------------------------
(* Part 11: loadConfig, the events list of the configuration document *)

MaxEvents == 2          \* most entries of the events list of a document

DEFAULT_EVENTS == <<"join", "leave", "death", "chat">>

SUPPORTED_EVENTS == DEFAULT_EVENTS

\* what a document can hold as an entry of events: the supported kinds, a
\* kind in another letter case, the version kind no parser produces, and a
\* word that is no kind
EventValues == {"join", "leave", "death", "chat", "Join", "version-mismatch", "kick"}

\* partial.events: not an array (or absent), or an array of entries
EventDocuments ==
    {[isArray |-> FALSE, values |-> <<>>]} \cup
    {[isArray |-> TRUE, values |-> v] :
        v \in UNION {[1..n -> EventValues] : n \in 0..MaxEvents}}

Includes(list, value) == \E i \in DOMAIN list : list[i] = value

\* applyDefaults: the events of the document, DEFAULT_EVENTS if it has none
applyDefaults(partial) ==
    IF partial.isArray /\ Len(partial.values) > 0
    THEN partial.values
    ELSE DEFAULT_EVENTS

\* validation that leaves the unsupported entries out instead of throwing
validateConfigLenient(events) ==
    IF Len(events) = 0
    THEN [outcome |-> "error", events |-> <<>>]
    ELSE [outcome |-> "config",
          events |-> SelectSeq(events, LAMBDA e : Includes(SUPPORTED_EVENTS, e))]

\* validateConfig, the events: an error for an empty list or an entry that
\* is not supported
validateConfig(events) ==
    LET unknownEvents == SelectSeq(events, LAMBDA e : ~Includes(SUPPORTED_EVENTS, e))
    IN  IF Len(events) = 0 \/ Len(unknownEvents) > 0
        THEN [outcome |-> "error", events |-> <<>>]
        ELSE [outcome |-> "config", events |-> events]

\* loadConfig: a document with the legacy key is refused, the defaults are
\* applied, the result is validated and returned
loadConfig(document) ==
    IF document.legacy
    THEN [outcome |-> "error", events |-> <<>>]
    ELSE validateConfig(applyDefaults(document.events))

InitConfig ==
    /\ ConnIdle
    /\ pl = PlIdle
    /\ fan = FanIdle
    /\ sd = SdIdle
    /\ tracker = TrackerIdle
    /\ parsed = ParsedIdle
    /\ cleaned = CleanedIdle
    /\ relay = RelayIdle
    /\ outbound = OutboundIdle
    /\ startup = StartupIdle
    /\ loaded \in [document : [events : EventDocuments, legacy : BOOLEAN],
                    outcome : {"none"}, events : {<<>>}]
    /\ sink = SinkIdle

ConfigFrame ==
    UNCHANGED <<connVars, plVars, fanVars, sdVars, trackerVars,
                parsedVars, cleanedVars, relayVars, outboundVars, startupVars,
                sinkVars>>

\* main() awaits loadConfig(configPath)
LoadConfig ==
    /\ loaded.outcome = "none"
    /\ LET result == loadConfig(loaded.document)
       IN  loaded' = [loaded EXCEPT !.outcome = result.outcome,
                                    !.events = result.events]
    /\ ConfigFrame

NextConfig == LoadConfig

SpecConfig == InitConfig /\ [][NextConfig]_vars

\* the kinds of the canonical event model
CanonicalKinds == {"join", "leave", "death", "chat", "version-mismatch"}

HasUnknownKind(values) == \E i \in DOMAIN values : values[i] \notin CanonicalKinds

\* C32: loading a document whose events list holds a value that is not a
\* canonical kind ends in a configuration error, and a configuration that
\* was loaded holds canonical kinds only.
C32_UnknownKindRejected ==
    loaded.outcome # "none" =>
        /\ HasUnknownKind(loaded.document.events.values) => loaded.outcome = "error"
        /\ loaded.outcome = "config" => ~HasUnknownKind(loaded.events)

\* a list with a supported kind and a word that is no kind was refused
C32_Witness ==
    /\ loaded.outcome = "error"
    /\ ~loaded.document.legacy
    /\ loaded.document.events.values = <<"chat", "kick">>

-----------------------------------------------------------------------------
(* Part 12: DiscordIntegration, the messaging sink (integrations/discord.ts,
   src/unnamed/part_007).  sink.posts holds the calls of
   sendMessage(channelId, payload) and sink.presence the calls of
   updateDiscordPresence(count) that the last operation made; sink.cache is
   messageCache, an entry for every chat message that was delivered. *)

MaxStatusAttempts == 2  \* largest attempt count a status context carries

SinkChannel == "channelId"

\* config.cubyz.botName: *aB* cleans to aB, ! cleans to the empty name
SinkBotNames == { <<"*", "a", "B", "*">>, <<"Z">>, <<"!">> }

\* config.events
SinkEventSets == { {"join", "leave", "death", "chat"},
                   {"join", "death"},
                   {"chat"} }

\* the display names of the events the connection manager emits; it emits
\* no event with an empty name
SinkUsernames == { <<"A", "b">>, <<"a", "B">>, <<"Z">>, <<"z", "b">> }

SinkMessages ==
    [type : {"join", "leave"}, username : SinkUsernames,
     rawUsername : SinkUsernames, message : {<<>>}]
    \cup [type : {"death"}, username : SinkUsernames,
          rawUsername : SinkUsernames, message : {<<>>, <<"f", "e", "l", "l">>}]
    \cup [type : {"chat"}, username : SinkUsernames,
          rawUsername : SinkUsernames, message : {<<"h", "i">>}]

SinkEvents == {m \in SinkMessages : m.rawUsername = m.username}

Statuses == {"online", "offline"}

\* context?.reason; "none" when the context or its reason is missing
StatusReasons ==
    {"connected", "server", "error", "retries-exhausted", "stopped", "none"}

\* context.attempts; NoValue when it is missing
StatusAttempts == {NoValue} \cup 0..MaxStatusAttempts

\* isActive: config.discord.enabled && this.isReady && this.client !== null
isActive(s) == s.enabled /\ s.isReady /\ s.client


\* sendMessage of the sink: a notification in the channel; a failure of the
\* send is logged
sinkSendMessage(s, message) ==
    IF ~isActive(s) \/ message = <<>> THEN s
    ELSE [s EXCEPT !.posts = Append(@, [channel |-> SinkChannel,
                                        payload |-> message])]

\* updatePresence of the sink
sinkUpdatePresence(s, playerCount) ==
    IF ~isActive(s) THEN s
    ELSE [s EXCEPT !.presence = Append(@, playerCount)]

\* resolveStatusMessage; <<>> for null
resolveStatusMessage(status, reason, attempts) ==
    IF status = "online"
    THEN IF reason = "connected"
         THEN <<"<U+1F7E2> **Bot connected to server**">>
         ELSE <<>>
    ELSE CASE reason = "retries-exhausted" ->
                  LET attemptText ==
                          IF attempts # NoValue /\ attempts > 0
                          THEN <<" after ", ToString(attempts), " attempts">>
                          ELSE <<>>
                  IN  <<"<U+274C> **Failed to reconnect">> \o attemptText
                          \o <<"**">>
           [] reason = "server" ->
                  <<"<U+1F534> **Bot disconnected from server**">>
           [] reason = "error" ->
                  <<"<U+26A0> **Bot connection failed**">>
           [] OTHER -> <<>>

\* updateStatus that leaves the presence as it is
updateStatusKeepsPresence(s, status, reason, attempts) ==
    IF ~isActive(s) THEN s
    ELSE sinkSendMessage(s, resolveStatusMessage(status, reason, attempts))

updateStatus(s, status, reason, attempts) ==
    IF ~isActive(s) THEN s
    ELSE LET s1 == IF status = "offline" THEN sinkUpdatePresence(s, 0) ELSE s
             statusMessage == resolveStatusMessage(status, reason, attempts)
         IN  IF statusMessage # <<>>
             THEN sinkSendMessage(s1, statusMessage)
             ELSE s1

\* shouldRelayEvent: config.events.includes(eventType)
shouldRelayEvent(eventType, events) == eventType \in events

\* formatMessage, for an empty censor list and texts without colour codes
formatMessage(chatMessage) ==
    LET username == chatMessage.username
    IN  CASE chatMessage.type = "join" ->
                 <<"<U+1F44B> **">> \o username \o <<" joined the game**">>
          [] chatMessage.type = "leave" ->
                 <<"<U+1F6AA> **">> \o username \o <<" left the game**">>
          [] chatMessage.type = "death" ->
                 <<"<U+1F480> **">> \o username \o <<" ">>
                     \o (IF chatMessage.message = <<>> THEN <<"died">>
                         ELSE chatMessage.message) \o <<"**">>
          [] OTHER ->
                 <<"**">> \o username \o <<"**: ">> \o chatMessage.message

\* relayChatMessage that compares the name as it is written
relayChatMessageCaseSensitive(s, chatMessage, delivered) ==
    IF ~isActive(s) THEN s
    ELSE IF ~shouldRelayEvent(chatMessage.type, s.events) THEN s
    ELSE IF /\ chatMessage.type = "chat"
            /\ Len(botNormalizedName(s.botName)) > 0
            /\ chatMessage.username = botNormalizedName(s.botName)
         THEN s
    ELSE [s EXCEPT !.posts = Append(@, [channel |-> SinkChannel,
                                        payload |-> formatMessage(chatMessage)])]

\* relayChatMessage; delivered tells whether sendMessage of the client
\* returned the sent message or threw
relayChatMessage(s, chatMessage, delivered) ==
    IF ~isActive(s) THEN s
    ELSE IF ~shouldRelayEvent(chatMessage.type, s.events) THEN s
    ELSE IF /\ chatMessage.type = "chat"
            /\ Len(botNormalizedName(s.botName)) > 0
            /\ toNormalized(chatMessage.username) = botNormalizedName(s.botName)
         THEN s
    ELSE LET sent == [s EXCEPT !.posts =
                         Append(@, [channel |-> SinkChannel,
                                    payload |-> formatMessage(chatMessage)])]
         IN  IF delivered /\ chatMessage.type = "chat"
                /\ chatMessage.message # <<>>
             THEN [sent EXCEPT !.cache = @ \cup
                      {[rawUsername |-> chatMessage.rawUsername,
                        username |-> chatMessage.username,
                        content |-> chatMessage.message]}]
             ELSE sent

\* start: nothing when the sink is disabled or ready; initializeDiscordClient
\* resolves with the client (initialized) or rejects
sinkStart(s, initialized) ==
    IF ~s.enabled \/ s.isReady THEN s
    ELSE IF ~initialized THEN s
    ELSE LET ready == [s EXCEPT !.client = TRUE, !.isReady = TRUE]
         IN  sinkUpdatePresence(
                 sinkSendMessage(ready, <<"**<U+1F916> Bot has joined chat**">>),
                 0)

\* stop
sinkStop(s) ==
    IF ~s.enabled \/ ~s.isReady THEN s
    ELSE [sinkSendMessage(s, <<"**<U+1F916> Bot has left chat**">>)
             EXCEPT !.isReady = FALSE, !.cache = {}, !.client = FALSE]

NoSinkMessage ==
    [type |-> "null", username |-> <<>>, rawUsername |-> <<>>, message |-> <<>>]

\* the last operation: its name, its arguments and the calls it made
SinkCall(s, name) ==
    [s EXCEPT !.call = name, !.status = "none", !.reason = "none",
              !.attempts = NoValue, !.message = NoSinkMessage,
              !.posts = <<>>, !.presence = <<>>]

InitSink ==
    /\ ConnIdle
    /\ pl = PlIdle
    /\ fan = FanIdle
    /\ sd = SdIdle
    /\ tracker = TrackerIdle
    /\ parsed = ParsedIdle
    /\ cleaned = CleanedIdle
    /\ relay = RelayIdle
    /\ outbound = OutboundIdle
    /\ startup = StartupIdle
    /\ loaded = LoadedIdle
    /\ sink \in [enabled : BOOLEAN, botName : SinkBotNames,
                 events : SinkEventSets, isReady : {FALSE}, client : {FALSE},
                 cache : {{}}, call : {"none"}, status : {"none"},
                 reason : {"none"}, attempts : {NoValue},
                 message : {NoSinkMessage}, posts : {<<>>}, presence : {<<>>}]

SinkFrame ==
    UNCHANGED <<connVars, plVars, fanVars, sdVars, trackerVars,
                parsedVars, cleanedVars, relayVars, outboundVars, startupVars,
                loadedVars>>

SinkStart ==
    /\ \E initialized \in BOOLEAN :
           sink' = sinkStart(SinkCall(sink, "start"), initialized)
    /\ SinkFrame

SinkStop ==
    /\ sink' = sinkStop(SinkCall(sink, "stop"))
    /\ SinkFrame

UpdateStatus ==
    /\ \E status \in Statuses, reason \in StatusReasons,
          attempts \in StatusAttempts :
           sink' = updateStatus([SinkCall(sink, "updateStatus")
                                    EXCEPT !.status = status,
                                           !.reason = reason,
                                           !.attempts = attempts],
                                status, reason, attempts)
    /\ SinkFrame

RelayChatMessage ==
    /\ \E chatMessage \in SinkEvents, delivered \in BOOLEAN :
           sink' = relayChatMessage([SinkCall(sink, "relayChatMessage")
                                        EXCEPT !.message = chatMessage],
                                    chatMessage, delivered)
    /\ SinkFrame

NextSink ==
    \/ SinkStart
    \/ SinkStop
    \/ UpdateStatus
    \/ RelayChatMessage

SpecSink == InitSink /\ [][NextSink]_vars

\* the pairs of status and reason that are announced in the channel
PostingPairs ==
    { <<"online", "connected">>, <<"offline", "server">>,
      <<"offline", "error">>, <<"offline", "retries-exhausted">> }

\* what updateStatus posts: one message exactly for an announced pair on an
\* active sink
StatusPostsExact ==
    /\ Len(sink.posts) <= 1
    /\ Len(sink.posts) = 1 <=>
           isActive(sink) /\ <<sink.status, sink.reason>> \in PostingPairs
    /\ \A i \in DOMAIN sink.posts :
           /\ sink.posts[i].channel = SinkChannel
           /\ sink.posts[i].payload =
                  resolveStatusMessage(sink.status, sink.reason, sink.attempts)

\* C35: updateStatus posts one status message exactly for (online,
\* connected), (offline, server), (offline, error) and (offline,
\* retries-exhausted) on an active sink and none otherwise, and every offline
\* status sets the presence player count to 0.
C35_StatusPosts ==
    sink.call = "updateStatus" =>
        /\ StatusPostsExact
        /\ sink.status = "offline" => sink.presence = <<0>>

\* C35 as the code has it: the presence is set to 0 on every offline status
\* that reaches an active sink; a sink that is not active posts nothing and
\* leaves the presence alone, and an online status never sets the presence.
C35_StatusPostsWhenActive ==
    sink.call = "updateStatus" =>
        /\ StatusPostsExact
        /\ sink.presence =
               IF isActive(sink) /\ sink.status = "offline" THEN <<0>> ELSE <<>>

\* an active sink was told that the retries are exhausted
C35_Witness ==
    /\ sink.call = "updateStatus"
    /\ isActive(sink)
    /\ sink.status = "offline"
    /\ sink.reason = "retries-exhausted"
    /\ sink.attempts = MaxStatusAttempts
    /\ Len(sink.posts) = 1
    /\ sink.presence = <<0>>

OwnChat(s, chatMessage) ==
    /\ chatMessage.type = "chat"
    /\ toNormalized(chatMessage.username) = toNormalized(cleanUsername(s.botName))

\* C40: a chat event whose display name equals the cleaned name of the bot,
\* letter case aside, is never sent to the channel; every other event of a
\* configured kind that reaches an active sink is sent, formatted, to the
\* configured channel.
C40_NoRelayLoop ==
    sink.call = "relayChatMessage" =>
        /\ OwnChat(sink, sink.message) => sink.posts = <<>>
        /\ ( /\ isActive(sink)
             /\ sink.message.type \in sink.events
             /\ ~OwnChat(sink, sink.message) )
           => sink.posts = << [channel |-> SinkChannel,
                               payload |-> formatMessage(sink.message)] >>

\* the bot is configured as *aB* and the game reports chat of Ab to an
\* active sink that relays chat
C40_Witness ==
    /\ sink.call = "relayChatMessage"
    /\ isActive(sink)
    /\ "chat" \in sink.events
    /\ sink.botName = <<"*", "a", "B", "*">>
    /\ sink.message.type = "chat"
    /\ sink.message.username = <<"A", "b">>
    /\ sink.posts = <<>>

-----------------------------------------------------------------------------
(* Further properties of the connection manager (Spec) *)

\* C33: the attempt counter is 0 whenever the manager is Connected, right
\* after a start() that took effect and right after stop(); a step that is
\* none of these resets never lowers it.
C33_AttemptCounter ==
    /\ [](state = "connected" => retryAttempt = 0)
    /\ [][ /\ lastCall' = "stop" => retryAttempt' = 0
           /\ (lastCall' = "start" /\ state = "stopped") => retryAttempt' = 0
           /\ (lastCall' = "start" /\ state # "stopped")
                 => retryAttempt' = retryAttempt
           /\ lastCall' \notin {"stop", "start", "connected"}
                 => retryAttempt' >= retryAttempt
           /\ lastCall' = "connected"
                 => retryAttempt' \in {0, retryAttempt} ]_vars

\* connected again after two failed attempts: the counter went 1, 2, 0
C33_Witness ==
    /\ state = "connected"
    /\ lastCall = "connected"
    /\ retryAttempt = 0
    /\ \E c \in 1..Len(sessions) : c >= 3 /\ connection = c

\* the reconnecting events among evs
Reconnecting(evs) == SelectSeq(evs, LAMBDA ev : ev.type = "reconnecting")

\* C34: a step that emits reconnecting emits one such event and leaves the
\* timer armed; the event carries the attempt counter, which is one more
\* than before the step and at most maxRetries when maxRetries > 0; between
\* two reconnecting events of an outage the counter stands still, so the
\* numbers of an outage are 1, 2, 3, ...; and when the timer fires it is
\* disarmed and one session is constructed if stop was not requested, none
\* otherwise.
C34_ReconnectingNumbers ==
    [][ /\ Reconnecting(emitted') # <<>>
          => /\ Len(Reconnecting(emitted')) = 1
             /\ reconnectTimer'
             /\ Reconnecting(emitted')[1].attempt = retryAttempt'
             /\ retryAttempt' = retryAttempt + 1
             /\ retryConfig.maxRetries > 0
                   => retryAttempt' <= retryConfig.maxRetries
        /\ ( /\ Reconnecting(emitted') = <<>>
             /\ state' # "stopped"
             /\ lastCall' \notin {"start", "connected"} )
          => retryAttempt' = retryAttempt
        /\ lastCall' = "timer"
          => /\ ~reconnectTimer'
             /\ Len(sessions') =
                   IF requestedStop THEN Len(sessions) ELSE Len(sessions) + 1
      ]_vars

\* the second reconnecting event of an outage, numbered 2
C34_Witness ==
    /\ Reconnecting(emitted) # <<>>
    /\ Reconnecting(emitted)[1].attempt = 2
    /\ reconnectTimer
    /\ lastCall = "failed"

\* C36: an armed reconnect timer implies the Connecting state and no held
\* session; the Stopped state implies no armed timer and no held session;
\* the Connected state implies a held session that carries the manager's
\* handlers.  The manager has one timer field, armed or not.
C36_StateShape ==
    /\ reconnectTimer \in BOOLEAN
    /\ reconnectTimer => (state = "connecting" /\ connection = Null)
    /\ state = "stopped" => (~reconnectTimer /\ connection = Null)
    /\ state = "connected"
          => /\ connection \in 1..Len(sessions)
             /\ sessions[connection].attached

\* a failed attempt left the timer armed and no session held
C36_Witness ==
    /\ reconnectTimer
    /\ state = "connecting"
    /\ connection = Null
    /\ lastCall = "failed"
    /\ Len(sessions) >= 2

SpecFair ==
    /\ Spec
    /\ WF_vars(TimerFire)
    /\ WF_vars(ConnectSucceeds)

\* the model has sessions left for a further attempt
SessionsLeft == Len(sessions) < MaxSessions

\* C39: with reconnect enabled, maxRetries = 0 and stop() never called, a
\* connect failure or a server disconnect is followed by the Connected
\* state and the connected event (as long as the model has sessions left),
\* and the manager does not stay Connecting for ever with no timer armed
\* and no attempt in flight.
C39_ReconnectsEventually ==
    ( /\ retryConfig.reconnect
      /\ retryConfig.maxRetries = 0
      /\ [](lastCall # "stop") )
    => /\ (lastCall \in {"failed", "disconnect"})
            ~> ( \/ state = "connected" /\ lastCall = "connected"
                 \/ ~SessionsLeft )
       /\ ~<>[]( /\ state = "connecting"
                 /\ ~reconnectTimer
                 /\ InFlightSessions = {}
                 /\ SessionsLeft )

\* the same with an error listener registered from the first failure on
C39_WithErrorListener ==
    ( /\ retryConfig.reconnect
      /\ retryConfig.maxRetries = 0
      /\ [](lastCall # "stop")
      /\ [](lastCall = "failed" => errorListener) )
    => /\ (lastCall \in {"failed", "disconnect"})
            ~> ( \/ state = "connected" /\ lastCall = "connected"
                 \/ ~SessionsLeft )
       /\ ~<>[]( /\ state = "connecting"
                 /\ ~reconnectTimer
                 /\ InFlightSessions = {}
                 /\ SessionsLeft )

-----------------------------------------------------------------------------
(* The connection manager with sessions that report a disconnect while     *)
(* their start() is still pending: the failure of one attempt then reaches *)
(* the manager twice, as a disconnect event and as a rejected promise.     *)

\* session c, not yet established, reports "disconnect" to whatever handlers
\* are registered on it; its start() stays pending and rejects later
HandshakeDisconnect ==
    \E c \in 1..Len(sessions) :
        /\ sessions[c].promise = "pending"
        /\ sessions[c].link = "init"
        /\ ~sessions[c].closed
        /\ LET w == [World EXCEPT !.sessions[c].link = "down"]
           IN  Commit(IF sessions[c].attached THEN handleDisconnect(w) ELSE w)
        /\ Ghost("handshakeDisconnect", <<>>)
        /\ streak' = Broken
        /\ UNCHANGED <<retryConfig, errorListener>>

NextDual ==
    \/ Next
    \/ HandshakeDisconnect

SpecDual == Init /\ [][NextDual]_vars

\* the step is the rejection of session c's start()
Rejects(c) ==
    /\ c \in 1..Len(sessions)
    /\ sessions[c].promise = "pending"
    /\ sessions'[c].promise = "rejected"

\* C38: with reconnect enabled, an error listener registered and no stop
\* requested, the rejection of the held session's start() advances the
\* attempt counter by one and schedules one reconnect or ends the retries;
\* and when the manager has just counted the attempt's failure for the
\* session's disconnect event, the rejection of the same attempt changes
\* neither the counter nor the schedule.
C38_FailureCountedOnce ==
    [][ \A c \in 1..Len(sessions) :
          /\ ( /\ Rejects(c)
               /\ c = connection
               /\ errorListener /\ retryConfig.reconnect /\ ~requestedStop )
             => /\ retryAttempt' = retryAttempt + 1
                /\ Len(Reconnecting(emitted')) = (IF reconnectTimer' THEN 1 ELSE 0)
                /\ reconnectTimer' \/ state' = "stopped"
          /\ ( /\ Rejects(c)
               /\ lastCall = "handshakeDisconnect"
               /\ Reconnecting(emitted) # <<>>
               /\ c = Len(sessions)
               /\ sessions[c].link = "down" )
             => /\ retryAttempt' = retryAttempt
                /\ Reconnecting(emitted') = <<>>
      ]_vars

====
